---- MODULE Spec2Model ----
(***************************************************************************)
(* Model of the personal baseline / risk / alert engine of oura-mcp-server *)
(*   utils/illness_detection.py  IllnessDetector                           *)
(*   utils/baselines.py          BaselineManager                           *)
(*   utils/alert_system.py       AlertSystem                               *)
(*   utils/sleep_debt.py         SleepDebtTracker                          *)
(*   utils/interpretation.py     InterpretationEngine                      *)
(*   utils/anomalies.py          AnomalyDetector                           *)
(*   api/client.py               OuraClient (rate limiting)                *)
(*                                                                         *)
(* Numbers.  The Python code computes with floats; the model computes the  *)
(* same quantities exactly: a quotient is kept as a fraction [n, d] with   *)
(* d > 0 and compared by cross-multiplication, severities are kept in      *)
(* tenths (0.4 -> 4), channel weights in hundredths (0.35 -> 35), and a    *)
(* float number of hours in sixteenths of an hour (8.0 -> 128), which is   *)
(* exact for every duration and sleep need the model draws.  A standard    *)
(* deviation is kept as its square (the sample variance).                  *)
(***************************************************************************)
EXTENDS Integers, Sequences, FiniteSets, TLC

VARIABLES
    readiness_data,   \* illness: the readiness window passed to detect_illness_signals
    sleep_data,       \* illness / alerts / debt: the sleep window
    detection,        \* illness: dict returned by detect_illness_signals
    report,           \* illness: outcome of format_illness_report(detection)
    values,           \* baselines: the list passed to calculate_baseline
    baseline,         \* baselines: dict returned by calculate_baseline
    current_value,    \* baselines: argument of the latest interpret_deviation call
    interp,           \* baselines: dict returned by the latest interpret_deviation call
    prev_value,       \* baselines: argument of the interpret_deviation call before that
    prev_interp,      \* baselines: its result
    system,           \* alerts / debt: the constructed AlertSystem or SleepDebtTracker
    called,           \* name of the last method called on system or on the detector
    alerts,           \* alerts: list returned by the last rule method
    debt_analysis,    \* debt: dict returned by calculate_sleep_debt
    debt_trace,       \* alerts / debt: accumulated debt after each processed night
    activity_data,    \* alerts: the activity window passed to check_all_alerts
    now,              \* the wall clock read by datetime.now()
    consecutive_bad,  \* alerts: the count _check_consecutive_bad_nights walked up to
    evaluated,        \* alerts: the alerts of check_all_alerts in rule order, before the sort
    exception,        \* the exception that left the last call, "None" when it returned
    cls_THRESHOLDS,   \* the class attribute AlertSystem.THRESHOLDS
    instances,        \* the AlertSystem instances constructed so far
    recovery_args,    \* recovery: the arguments of interpret_recovery_state
    recovery_state,   \* recovery: dict returned by interpret_recovery_state
    training_type,    \* recovery: the training_type passed to assess_training_readiness
    recommendation,   \* recovery: dict returned by assess_training_readiness
    current_sleep,    \* anomalies: the record passed to detect_sleep_anomalies
    recent_nights,    \* anomalies: the recent_sleep records it takes the baselines from
    anomalies,        \* anomalies: list returned by the last detect_*_anomalies call
    current_readiness, \* anomalies: the record passed to detect_readiness_anomalies
    recent_days,      \* anomalies: the recent_readiness records it takes the baselines from
    metric_values,    \* anomalies: the list passed to detect_consecutive_decline, newest first
    decline_days,     \* anomalies: its days argument
    decline,          \* anomalies: what detect_consecutive_decline returned
    loop_time,        \* client: the event loop's clock, in seconds
    calendar_day,     \* client: datetime.now().date(), as a day number
    client,           \* client: the rate limiting state of the OuraClient
    in_flight,        \* client: the _request calls made so far and where each is
    sent              \* client: the loop time at which each call reached the HTTP layer

vars == <<readiness_data, sleep_data, detection, report, values, baseline,
          current_value, interp, prev_value, prev_interp, system, called,
          alerts, debt_analysis, debt_trace, activity_data, now, consecutive_bad,
          evaluated, exception, cls_THRESHOLDS, instances, recovery_args,
          recovery_state, training_type, recommendation, current_sleep,
          recent_nights, anomalies, current_readiness, recent_days, metric_values,
          decline_days, decline, loop_time, calendar_day, client, in_flight, sent>>

illnessVars  == <<readiness_data, detection, report>>
baselineVars == <<values, baseline, current_value, interp, prev_value, prev_interp>>
sleepVars    == <<system, called, alerts, debt_analysis, debt_trace>>
alertVars    == <<activity_data, now, consecutive_bad, evaluated, exception,
                  cls_THRESHOLDS, instances>>
recoveryVars == <<recovery_args, recovery_state, training_type, recommendation>>
anomalyVars  == <<current_sleep, recent_nights, anomalies>>
detectorVars == <<current_readiness, recent_days, metric_values, decline_days, decline>>
clientVars   == <<loop_time, calendar_day, client, in_flight, sent>>

\* a float number of hours, in sixteenths
Hours(h) == h * 16

\* seconds / 3600
HoursOfSeconds(sec) == (sec * 16) \div 3600

\* the class-level table as the class body sets it; the sleep_duration and
\* sleep_debt rows are hours
ALERT_THRESHOLDS ==
    [sleep_score            |-> [critical |-> 60, warning |-> 70],
     sleep_duration         |-> [critical |-> Hours(6), warning |-> Hours(7)],
     sleep_debt             |-> [critical |-> Hours(15), warning |-> Hours(10)],
     readiness_score        |-> [critical |-> 60, warning |-> 70],
     hrv_balance            |-> [critical |-> 50, warning |-> 60],
     resting_hr_increase    |-> [critical |-> 10, warning |-> 7],
     consecutive_bad_nights |-> [critical |-> 5, warning |-> 3],
     activity_streak        |-> [warning |-> 3]]

\* the components a specification does not exercise stay as constructed
IllnessIdleResults ==
    /\ detection = [called |-> FALSE]
    /\ report = [called |-> FALSE]

IllnessIdle ==
    /\ readiness_data = <<>>
    /\ IllnessIdleResults

BaselineIdle ==
    /\ values = <<>>
    /\ baseline = [called |-> FALSE]
    /\ current_value = -1
    /\ interp = [called |-> FALSE]
    /\ prev_value = -1
    /\ prev_interp = [called |-> FALSE]

SleepIdle ==
    /\ system = [called |-> FALSE]
    /\ called = "None"
    /\ alerts = <<>>
    /\ debt_analysis = [called |-> FALSE]
    /\ debt_trace = <<>>

AlertIdle ==
    /\ activity_data = <<>>
    /\ now = 0
    /\ consecutive_bad = -1
    /\ evaluated = <<>>
    /\ exception = "None"
    /\ cls_THRESHOLDS = ALERT_THRESHOLDS
    /\ instances = <<>>

RecoveryIdle ==
    /\ recovery_args = [called |-> FALSE]
    /\ recovery_state = [called |-> FALSE]
    /\ training_type = "general"
    /\ recommendation = [called |-> FALSE]

AnomalyIdle ==
    /\ current_sleep = [called |-> FALSE]
    /\ recent_nights = <<>>
    /\ anomalies = <<>>

DetectorIdle ==
    /\ current_readiness = [called |-> FALSE]
    /\ recent_days = <<>>
    /\ metric_values = <<>>
    /\ decline_days = 0
    /\ decline = [called |-> FALSE]

ClientIdle ==
    /\ loop_time = 0
    /\ calendar_day = 0
    /\ client = [called |-> FALSE]
    /\ in_flight = <<>>
    /\ sent = <<>>

(***************************************************************************)
(* Python values                                                           *)
(***************************************************************************)
\* None / a key that is absent from a dict (dict.get returns None); every
\* real measurement of the model is >= 0
None == -1

\* the value of a result variable before the call that sets it
NoResult == [called |-> FALSE]

\* the fraction n/d, d > 0
Frac(n, d) == [n |-> n, d |-> d]

FracLE(a, b) == a.n * b.d <= b.n * a.d
FracLT(a, b) == a.n * b.d <  b.n * a.d
FracEQ(a, b) == a.n * b.d =  b.n * a.d
FracSub(a, b) == Frac(a.n * b.d - b.n * a.d, a.d * b.d)
FracInt(k) == Frac(k, 1)

Min(a, b) == IF a <= b THEN a ELSE b
Max(a, b) == IF a >= b THEN a ELSE b

RECURSIVE SumSeq(_)
SumSeq(s) == IF s = <<>> THEN 0 ELSE Head(s) + SumSeq(Tail(s))

\* s[-k:]
LastN(s, k) == IF Len(s) <= k THEN s ELSE SubSeq(s, Len(s) - k + 1, Len(s))

\* s[:-k]
AllButLastN(s, k) == IF Len(s) <= k THEN <<>> ELSE SubSeq(s, 1, Len(s) - k)

\* [x for x in s if x is not None]
NotNone(s) == SelectSeq(s, LAMBDA x : x # None)

\* [f(r) for r in s]
Column(s, field) == [i \in 1..Len(s) |-> s[i][field]]

\* statistics.mean of a non-empty list
mean(s) == Frac(SumSeq(s), Len(s))

(***************************************************************************)
(* utils/illness_detection.py                                              *)
(***************************************************************************)
Channels == <<"temperature", "hrv", "resting_hr", "respiratory_rate", "recovery">>
ChannelSet == {Channels[i] : i \in 1..Len(Channels)}

THRESHOLDS ==
    [temperature_score_drop    |-> [elevated |-> -10, high |-> -20, critical |-> -30],
     hrv_drop                  |-> [elevated |-> -15, high |-> -25, critical |-> -35],
     resting_hr_increase       |-> [elevated |-> 5,   high |-> 8,   critical |-> 12],
     respiratory_rate_increase |-> [elevated |-> 2,   high |-> 3,   critical |-> 5],
     recovery_score_drop       |-> [elevated |-> -15, high |-> -25, critical |-> -35]]

\* hundredths
SIGNAL_WEIGHTS ==
    [temperature |-> 35, hrv |-> 25, resting_hr |-> 20,
     respiratory_rate |-> 10, recovery |-> 10]

\* the per-channel value lists the detector extracts from a window
ChannelValues(ch, readiness, sleep) ==
    CASE ch = "temperature"      -> NotNone(Column(readiness, "body_temperature"))
      [] ch = "hrv"              -> NotNone(Column(readiness, "hrv_balance"))
      [] ch = "resting_hr"       -> NotNone(Column(readiness, "resting_heart_rate"))
      [] ch = "respiratory_rate" -> NotNone(Column(sleep, "breath_average"))
      [] ch = "recovery"         -> NotNone(Column(readiness, "score"))

BaselineKey(ch) == IF ch = "recovery" THEN "recovery_score" ELSE ch

\* a dict holding the mean of every channel that has at least one value in
\* the baseline period (the *_std entries are written but never read)
CalculateBaselines(readiness, sleep) ==
    LET present == {ch \in ChannelSet : ChannelValues(ch, readiness, sleep) # <<>>}
    IN  [k \in {BaselineKey(ch) : ch \in present} |->
            LET ch == IF k = "recovery_score" THEN "recovery" ELSE k
            IN  mean(ChannelValues(ch, readiness, sleep))]

IllnessSignal(type, sev, value, base, dev) ==
    [signal_type |-> type, severity |-> sev, value |-> value,
     baseline |-> base, deviation |-> dev, timestamp |-> now]

\* mutant: the ladder compared with < instead of <=
DropSeverityStrict(x, th) ==
    IF FracLT(x, FracInt(th.critical)) THEN 10
    ELSE IF FracLT(x, FracInt(th.high)) THEN 7
    ELSE IF FracLT(x, FracInt(th.elevated)) THEN 4
    ELSE 0

\* if x <= critical / elif x <= high / elif x <= elevated  (tenths)
DropSeverity(x, th) ==
    IF FracLE(x, FracInt(th.critical)) THEN 10
    ELSE IF FracLE(x, FracInt(th.high)) THEN 7
    ELSE IF FracLE(x, FracInt(th.elevated)) THEN 4
    ELSE 0

\* if x >= critical / elif x >= high / elif x >= elevated  (tenths)
RiseSeverity(x, th) ==
    IF FracLE(FracInt(th.critical), x) THEN 10
    ELSE IF FracLE(FracInt(th.high), x) THEN 7
    ELSE IF FracLE(FracInt(th.elevated), x) THEN 4
    ELSE 0

\* (deviation / baseline) * 100 if baseline > 0 else 0
PercentChange(deviation, base) ==
    IF base.n > 0 THEN Frac(deviation.n * 100 * base.d, deviation.d * base.n)
    ELSE FracInt(0)

\* the severity ladder of each channel applied to its deviation
ChannelSeverity(ch, deviation, base) ==
    CASE ch = "temperature" ->
            DropSeverity(deviation, THRESHOLDS.temperature_score_drop)
      [] ch = "hrv" ->
            DropSeverity(PercentChange(deviation, base), THRESHOLDS.hrv_drop)
      [] ch = "resting_hr" ->
            RiseSeverity(deviation, THRESHOLDS.resting_hr_increase)
      [] ch = "respiratory_rate" ->
            RiseSeverity(deviation, THRESHOLDS.respiratory_rate_increase)
      [] ch = "recovery" ->
            DropSeverity(deviation, THRESHOLDS.recovery_score_drop)

\* each check returns a list holding the signal, or the empty list for None
CheckChannel(ch, recent, baselines) ==
    IF BaselineKey(ch) \notin DOMAIN baselines THEN <<>>
    ELSE IF recent = <<>> THEN <<>>
    ELSE LET avg_recent == mean(recent)
             base       == baselines[BaselineKey(ch)]
             deviation  == FracSub(avg_recent, base)
             severity   == ChannelSeverity(ch, deviation, base)
         IN  IF severity > 0
             THEN <<IllnessSignal(ch, severity, avg_recent, base, deviation)>>
             ELSE <<>>

CheckTemperature(recent_data, baselines) ==
    CheckChannel("temperature", ChannelValues("temperature", recent_data, <<>>), baselines)

CheckHrv(recent_data, baselines) ==
    CheckChannel("hrv", ChannelValues("hrv", recent_data, <<>>), baselines)

CheckRestingHr(recent_data, baselines) ==
    CheckChannel("resting_hr", ChannelValues("resting_hr", recent_data, <<>>), baselines)

\* returns None as well when the recent sleep window is empty
CheckRespiratoryRate(recent_data, baselines) ==
    IF recent_data = <<>> THEN <<>>
    ELSE CheckChannel("respiratory_rate",
                      ChannelValues("respiratory_rate", <<>>, recent_data), baselines)

CheckRecoveryScore(recent_data, baselines) ==
    CheckChannel("recovery", ChannelValues("recovery", recent_data, <<>>), baselines)

\* sum over the signals of severity * weight (thousandths) and of weight (hundredths)
RECURSIVE WeightedScore(_)
WeightedScore(signals) ==
    IF signals = <<>> THEN 0
    ELSE Head(signals).severity * SIGNAL_WEIGHTS[Head(signals).signal_type]
         + WeightedScore(Tail(signals))

RECURSIVE TotalWeight(_)
TotalWeight(signals) ==
    IF signals = <<>> THEN 0
    ELSE SIGNAL_WEIGHTS[Head(signals).signal_type] + TotalWeight(Tail(signals))

\* mutant: the weighted sum divided by the sum of all five weights (1.0)
CalculateRiskScoreAllWeights(signals) ==
    IF signals = <<>> THEN FracInt(0)
    ELSE Frac(WeightedScore(signals) * 100, 100 * 10)

\* mutant: total_weight = weight instead of total_weight += weight
CalculateRiskScoreLastWeight(signals) ==
    IF signals = <<>> THEN FracInt(0)
    ELSE Frac(WeightedScore(signals) * 100,
              SIGNAL_WEIGHTS[signals[Len(signals)].signal_type] * 10)

\* (weighted_score / total_weight) * 100
CalculateRiskScore(signals) ==
    IF signals = <<>> THEN FracInt(0)
    ELSE IF TotalWeight(signals) > 0
         THEN Frac(WeightedScore(signals) * 100, TotalWeight(signals) * 10)
         ELSE FracInt(0)

DetermineRiskLevel(risk_score) ==
    IF FracLE(FracInt(70), risk_score) THEN "CRITICAL"
    ELSE IF FracLE(FracInt(50), risk_score) THEN "HIGH"
    ELSE IF FracLE(FracInt(30), risk_score) THEN "ELEVATED"
    ELSE "NORMAL"

SignalTypes(signals) == {signals[i].signal_type : i \in 1..Len(signals)}

\* the severities (tenths) of a signal list in channel order, 0 for a
\* channel without signal
SeverityVector(signals) ==
    [i \in 1..Len(Channels) |->
        LET hit == SelectSeq(signals, LAMBDA s : s.signal_type = Channels[i])
        IN  IF hit = <<>> THEN 0 ELSE hit[1].severity]

\* the signal lists whose score is 70 in exact arithmetic and whose float
\* quotient (weighted_score / total_weight) * 100 is 69.99999999999999 or
\* 69.99999999999997
ScoreFloatsBelow70 ==
    {<<0, 0, 0, 0, 7>>, <<0, 0, 0, 7, 0>>, <<0, 0, 0, 7, 7>>, <<0, 0, 7, 0, 0>>,
     <<0, 0, 7, 0, 7>>, <<0, 0, 7, 7, 0>>, <<0, 0, 7, 7, 7>>, <<0, 7, 7, 0, 0>>,
     <<0, 7, 7, 0, 7>>, <<0, 7, 7, 7, 0>>, <<7, 0, 4, 10, 10>>, <<7, 0, 7, 0, 0>>,
     <<7, 0, 7, 4, 10>>, <<7, 0, 7, 7, 7>>, <<7, 7, 7, 0, 0>>, <<7, 7, 7, 0, 7>>,
     <<7, 7, 7, 7, 0>>, <<7, 7, 7, 7, 7>>}

\* the score as _determine_risk_level compares it: the float falls below
\* the cutpoint 70 for the lists above and is on the exact side of every
\* cutpoint for every other list
RiskScoreFloat(signals) ==
    IF SeverityVector(signals) \in ScoreFloatsBelow70
    THEN FracSub(CalculateRiskScore(signals), Frac(1, 1000))
    ELSE CalculateRiskScore(signals)

\* mutant: the respiratory rule tested before the classic rule
DetectIllnessPatternRespFirst(signals) ==
    LET signal_types == SignalTypes(signals)
    IN  IF signals = <<>> THEN "None"
        ELSE IF {"temperature", "respiratory_rate"} \subseteq signal_types
             THEN "respiratory_infection"
        ELSE IF {"temperature", "hrv", "resting_hr"} \subseteq signal_types
             THEN "classic_infection"
        ELSE IF {"hrv", "resting_hr"} \subseteq signal_types
                /\ "temperature" \notin signal_types
             THEN "stress_overtraining"
        ELSE IF {"temperature", "recovery"} \subseteq signal_types
             THEN "early_infection"
        ELSE "unknown_pattern"

DetectIllnessPattern(signals) ==
    LET signal_types == SignalTypes(signals)
    IN  IF signals = <<>> THEN "None"
        ELSE IF {"temperature", "hrv", "resting_hr"} \subseteq signal_types
             THEN "classic_infection"
        ELSE IF {"temperature", "respiratory_rate"} \subseteq signal_types
             THEN "respiratory_infection"
        ELSE IF {"hrv", "resting_hr"} \subseteq signal_types
                /\ "temperature" \notin signal_types
             THEN "stress_overtraining"
        ELSE IF {"temperature", "recovery"} \subseteq signal_types
             THEN "early_infection"
        ELSE "unknown_pattern"

\* (min(len / 3, 1) * 0.6 + mean(severity) * 0.4) * 100, capped at 100
CalculateConfidence(signals) ==
    IF signals = <<>> THEN FracInt(0)
    ELSE LET k   == Len(signals)
             sev == SumSeq(Column(signals, "severity"))
             c   == Frac(Min(k, 3) * 20 * k + 4 * sev, k)
         IN  IF FracLE(c, FracInt(100)) THEN c ELSE FracInt(100)

GenerateRecommendation(risk_level, pattern) ==
    IF risk_level = "CRITICAL" THEN "CRITICAL: Strong illness indicators detected"
    ELSE IF risk_level = "HIGH" THEN "HIGH RISK: Multiple illness signals detected"
    ELSE IF risk_level = "ELEVATED"
         THEN IF pattern = "stress_overtraining"
              THEN "ELEVATED: Stress/overtraining signals detected"
              ELSE "ELEVATED: Early warning signs detected"
    ELSE "No illness signals detected"

DetectIllnessSignals(readiness, sleep) ==
    IF readiness = <<>> \/ Len(readiness) < 7
    THEN [risk_level |-> "NORMAL", risk_score |-> FracInt(0), signals |-> <<>>,
          error |-> "Insufficient data (need at least 7 days)"]
    ELSE LET baselines == CalculateBaselines(AllButLastN(readiness, 3),
                                             IF sleep # <<>> THEN AllButLastN(sleep, 3) ELSE <<>>)
             recent_readiness == LastN(readiness, 3)
             recent_sleep     == IF sleep # <<>> THEN LastN(sleep, 3) ELSE <<>>
             signals == CheckTemperature(recent_readiness, baselines)
                        \o CheckHrv(recent_readiness, baselines)
                        \o CheckRestingHr(recent_readiness, baselines)
                        \o CheckRespiratoryRate(recent_sleep, baselines)
                        \o CheckRecoveryScore(recent_readiness, baselines)
             risk_score == CalculateRiskScore(signals)
             risk_level == DetermineRiskLevel(RiskScoreFloat(signals))
             pattern    == DetectIllnessPattern(signals)
         IN  [risk_level |-> risk_level, risk_score |-> risk_score,
              signals |-> signals, baselines |-> baselines, pattern |-> pattern,
              confidence |-> CalculateConfidence(signals),
              recommendation |-> GenerateRecommendation(risk_level, pattern)]

\* sorted(signals, key=severity, reverse=True): a stable sort, so the
\* critical signals come first in their original order, then high, then elevated
SortedBySeverity(signals) ==
    SelectSeq(signals, LAMBDA s : s.severity = 10)
    \o SelectSeq(signals, LAMBDA s : s.severity = 7)
    \o SelectSeq(signals, LAMBDA s : s.severity = 4)

\* the report as the list of its sections; subscripting the dict with a
\* key it does not hold raises KeyError
FormatIllnessReport(d) ==
    IF \E k \in {"risk_level", "risk_score", "signals"} : k \notin DOMAIN d
    THEN [raised |-> "KeyError", sections |-> <<>>]
    ELSE LET pattern == IF "pattern" \in DOMAIN d THEN d.pattern ELSE "None"
             head == <<"title", d.risk_level>>
                     \o (IF pattern # "None" THEN <<pattern>> ELSE <<>>)
                     \o (IF d.signals # <<>>
                         THEN Column(SortedBySeverity(d.signals), "signal_type")
                         ELSE <<>>)
         IN  IF "recommendation" \notin DOMAIN d
             THEN [raised |-> "KeyError", sections |-> <<>>]
             ELSE [raised |-> "None",
                   sections |-> head \o <<d.recommendation>>
                       \o (IF "baselines" \in DOMAIN d /\ DOMAIN d.baselines # {}
                           THEN <<"baselines">> ELSE <<>>)
                       \o <<"tip">>]

(***************************************************************************)
(* utils/baselines.py                                                      *)
(***************************************************************************)
Abs(x) == IF x < 0 THEN -x ELSE x
Sign(x) == IF x < 0 THEN -1 ELSE IF x > 0 THEN 1 ELSE 0

RECURSIVE SumSquares(_)
SumSquares(s) == IF s = <<>> THEN 0 ELSE Head(s) * Head(s) + SumSquares(Tail(s))

RECURSIVE MinSeq(_)
MinSeq(s) == IF Len(s) = 1 THEN s[1] ELSE Min(Head(s), MinSeq(Tail(s)))

RECURSIVE MaxSeq(_)
MaxSeq(s) == IF Len(s) = 1 THEN s[1] ELSE Max(Head(s), MaxSeq(Tail(s)))

\* an exception leaving a call
Raised(e) == [raised |-> e]
IsRaised(r) == "raised" \in DOMAIN r

\* statistics.mean: raises on an empty list
StatisticsMean(s) ==
    IF s = <<>> THEN Raised("StatisticsError") ELSE mean(s)

\* statistics.stdev, kept as its square: the sample variance
\* sum((x - mean)^2) / (n - 1); raises on fewer than two values
StatisticsStdev(s) ==
    IF Len(s) < 2 THEN Raised("StatisticsError")
    ELSE Frac(Len(s) * SumSquares(s) - SumSeq(s) * SumSeq(s), Len(s) * (Len(s) - 1))

\* the dict literal of calculate_baseline: evaluating an entry that raises
\* makes the call raise
BaselineDict(m, sd, lo, hi, count) ==
    IF IsRaised(m) THEN m
    ELSE IF IsRaised(sd) THEN sd
    ELSE [mean |-> m, std_dev_sq |-> sd, min |-> lo, max |-> hi, count |-> count]

\* mutant: the guard on stdev is len(values) > 0
CalculateBaselineWeakGuard(vals) ==
    IF vals = <<>>
    THEN [mean |-> FracInt(0), std_dev_sq |-> FracInt(0), min |-> 0, max |-> 0, count |-> 0]
    ELSE BaselineDict(StatisticsMean(vals),
                      IF Len(vals) > 0 THEN StatisticsStdev(vals) ELSE FracInt(0),
                      MinSeq(vals), MaxSeq(vals), Len(vals))

CalculateBaseline(vals) ==
    IF vals = <<>>
    THEN [mean |-> FracInt(0), std_dev_sq |-> FracInt(0), min |-> 0, max |-> 0, count |-> 0]
    ELSE BaselineDict(StatisticsMean(vals),
                      IF Len(vals) > 1 THEN StatisticsStdev(vals) ELSE FracInt(0),
                      MinSeq(vals), MaxSeq(vals), Len(vals))

\* round(n / d) to the nearest integer; a value exactly half way goes to the
\* even neighbour, which is what round() does to a float that is exactly a
\* tie.  (A float quotient that is one ulp off an exact tie, such as
\* (3 - 16/3) / (16/3) * 100 = -43.74999999999999, goes to the other
\* neighbour in the code; this is the last digit of deviation_percentage.)
RoundHalfEven(n, d) ==
    LET up == (2 * n + d) \div (2 * d)
    IN  IF (2 * n + d) % (2 * d) = 0 /\ up % 2 # 0 THEN up - 1 ELSE up

\* the largest m in lo..hi with m * m <= x, given lo * lo <= x
RECURSIVE ISqrtIn(_, _, _)
ISqrtIn(x, lo, hi) ==
    IF lo >= hi THEN lo
    ELSE LET mid == (lo + hi + 1) \div 2
         IN  IF mid * mid <= x THEN ISqrtIn(x, mid, hi) ELSE ISqrtIn(x, lo, mid - 1)

ISqrt(x) == ISqrtIn(x, 0, Min(x, 46340))

\* a quotient by a standard deviation is sgn * sqrt(sq), sq a fraction
Root(sgn, sq) == [sgn |-> sgn, sq |-> sq]

\* abs(r)
RootAbs(r) == Root(Abs(r.sgn), r.sq)

\* r < t for a fraction t > 0
RootLT(r, t) == r.sgn <= 0 \/ FracLT(r.sq, Frac(t.n * t.n, t.d * t.d))

\* the greatest common divisor of a >= 0 and b > 0
RECURSIVE GCD(_, _)
GCD(a, b) == IF a % b = 0 THEN b ELSE GCD(b, a % b)

\* round(r, 2) in hundredths; the square is brought to lowest terms p / q so
\* that 40000 * p / q is computed within 32 bits
RootRound2(r) ==
    LET g == GCD(r.sq.n, r.sq.d)
        p == r.sq.n \div g
        q == r.sq.d \div g
        x == (p \div q) * 40000 + ((p % q) * 40000) \div q
        m == ISqrt(x)
        k == IF m % 2 = 1 /\ m * m = x /\ ((p % q) * 40000) % q = 0
             THEN (IF ((m + 1) \div 2) % 2 = 0 THEN (m + 1) \div 2 ELSE (m - 1) \div 2)
             ELSE (m + 1) \div 2
    IN  r.sgn * k

\* mutant: the deviation itself stands in when std_dev is 0
DeviationStdUnscaled(deviation_abs, std_dev_sq) ==
    IF std_dev_sq.n # 0
    THEN Root(Sign(deviation_abs.n),
              Frac(deviation_abs.n * deviation_abs.n * std_dev_sq.d,
                   deviation_abs.d * deviation_abs.d * std_dev_sq.n))
    ELSE Root(Sign(deviation_abs.n),
              Frac(deviation_abs.n * deviation_abs.n, deviation_abs.d * deviation_abs.d))

\* deviation_abs / std_dev if std_dev != 0 else 0
DeviationStd(deviation_abs, std_dev_sq) ==
    IF std_dev_sq.n # 0
    THEN Root(Sign(deviation_abs.n),
              Frac(deviation_abs.n * deviation_abs.n * std_dev_sq.d,
                   deviation_abs.d * deviation_abs.d * std_dev_sq.n))
    ELSE Root(0, FracInt(0))

\* the if / elif chain of the status
StatusOf(x) ==
    IF RootLT(x, Frac(1, 2)) THEN "normal"
    ELSE IF RootLT(x, Frac(1, 1)) THEN "slightly_abnormal"
    ELSE IF RootLT(x, Frac(3, 2)) THEN "moderately_abnormal"
    ELSE "highly_abnormal"

InterpretationText(status, deviation_abs) ==
    CASE status = "normal" -> "within normal range"
      [] status = "slightly_abnormal" ->
            IF deviation_abs.n > 0 THEN "slightly above normal" ELSE "slightly below normal"
      [] status = "moderately_abnormal" ->
            IF deviation_abs.n > 0 THEN "moderately elevated" ELSE "moderately decreased"
      [] status = "highly_abnormal" ->
            IF deviation_abs.n > 0 THEN "significantly elevated" ELSE "significantly decreased"

InterpretResult(current, b, use_abs) ==
    IF b.count = 0
    THEN [deviation_absolute |-> 0, deviation_percentage |-> 0, deviation_std |-> 0,
          interpretation |-> "No baseline data available", status |-> "unknown"]
    ELSE LET deviation_abs == FracSub(FracInt(current), b.mean)
             deviation_pct == IF b.mean.n # 0
                              THEN Frac(Sign(b.mean.n) * deviation_abs.n * b.mean.d * 100,
                                        deviation_abs.d * Abs(b.mean.n))
                              ELSE FracInt(0)
             deviation_std == DeviationStd(deviation_abs, b.std_dev_sq)
             status == StatusOf(IF use_abs THEN RootAbs(deviation_std) ELSE deviation_std)
         IN  [deviation_absolute   |-> RoundHalfEven(deviation_abs.n * 10, deviation_abs.d),
              deviation_percentage |-> RoundHalfEven(deviation_pct.n * 10, deviation_pct.d),
              deviation_std        |-> RootRound2(deviation_std),
              interpretation       |-> InterpretationText(status, deviation_abs),
              status               |-> status,
              baseline_mean        |-> RoundHalfEven(b.mean.n * 10, b.mean.d),
              baseline_range       |-> <<b.min, b.max>>]

\* mutant: the status chain tests deviation_std instead of abs(deviation_std)
InterpretDeviationNoAbs(current, b) == InterpretResult(current, b, FALSE)

InterpretDeviation(current, b) == InterpretResult(current, b, TRUE)

(***************************************************************************)
(* Illness detection: the windows the detector is run on                   *)
(***************************************************************************)
MaxDays == 8

Levels == {"no_baseline", "no_recent", "normal", "elevated", "high", "critical"}

\* a typical day, and the recent-period value that puts a channel exactly on
\* each rung of its ladder
BaseValue == [temperature |-> 90, hrv |-> 80, resting_hr |-> 50,
              respiratory_rate |-> 14, recovery |-> 85]

LevelValue ==
    [temperature      |-> [normal |-> 90, elevated |-> 80, high |-> 70, critical |-> 60],
     hrv              |-> [normal |-> 80, elevated |-> 68, high |-> 60, critical |-> 52],
     resting_hr       |-> [normal |-> 50, elevated |-> 55, high |-> 58, critical |-> 62],
     respiratory_rate |-> [normal |-> 14, elevated |-> 16, high |-> 17, critical |-> 19],
     recovery         |-> [normal |-> 85, elevated |-> 70, high |-> 60, critical |-> 50]]

\* values a single channel is swept over, None included
Grid ==
    [temperature      |-> {None, 60, 70, 80, 90},
     hrv              |-> {None, 0, 45, 52, 60, 65, 68, 80},
     resting_hr       |-> {None, 50, 55, 58, 62, 63},
     respiratory_rate |-> {None, 14, 16, 17, 19},
     recovery         |-> {None, 50, 60, 70, 85}]

ReadinessRecord(temp, hrv, rhr, score) ==
    [body_temperature |-> temp, hrv_balance |-> hrv,
     resting_heart_rate |-> rhr, score |-> score]

SleepRecord(breath) == [breath_average |-> breath]

\* the value of channel ch on day i of an n-day window with profile lv
ProfileValue(ch, lv, i, n) ==
    IF i <= n - 3
    THEN IF lv = "no_baseline" THEN None ELSE BaseValue[ch]
    ELSE CASE lv = "no_baseline" -> BaseValue[ch]
           [] lv = "no_recent"   -> None
           [] OTHER              -> LevelValue[ch][lv]

ProfileReadiness(p, n) ==
    [i \in 1..n |-> ReadinessRecord(ProfileValue("temperature", p["temperature"], i, n),
                                    ProfileValue("hrv", p["hrv"], i, n),
                                    ProfileValue("resting_hr", p["resting_hr"], i, n),
                                    ProfileValue("recovery", p["recovery"], i, n))]

ProfileSleep(p, n) ==
    [i \in 1..n |-> SleepRecord(ProfileValue("respiratory_rate", p["respiratory_rate"], i, n))]

\* seven days on which only channel ch is measured: b1, b2 in the baseline
\* period, r1, r2 in the recent period
SweepDays(b1, b2, r1, r2) == <<b1, b2, None, None, r1, None, r2>>

SweepReadiness(ch, d) ==
    [i \in 1..7 |-> ReadinessRecord(IF ch = "temperature" THEN d[i] ELSE None,
                                    IF ch = "hrv" THEN d[i] ELSE None,
                                    IF ch = "resting_hr" THEN d[i] ELSE None,
                                    IF ch = "recovery" THEN d[i] ELSE None)]

SweepSleep(d) == [i \in 1..7 |-> SleepRecord(d[i])]

InitIllness ==
    /\ \/ \E p \in [ChannelSet -> Levels], n \in 7..MaxDays :
            /\ readiness_data = ProfileReadiness(p, n)
            /\ sleep_data = ProfileSleep(p, n)
       \/ \E n \in 0..6 :
            /\ readiness_data = ProfileReadiness([ch \in ChannelSet |-> "normal"], n)
            /\ sleep_data = ProfileSleep([ch \in ChannelSet |-> "normal"], n)
       \/ \E ch \in ChannelSet \ {"respiratory_rate"} :
          \E b1, b2, r1, r2 \in Grid[ch] :
            /\ readiness_data = SweepReadiness(ch, SweepDays(b1, b2, r1, r2))
            /\ sleep_data = <<>>
       \/ \E b1, b2, r1, r2 \in Grid["respiratory_rate"], ns \in {3, 5, 7} :
            /\ readiness_data = SweepReadiness("respiratory_rate", SweepDays(None, None, None, None))
            /\ sleep_data = LastN(SweepSleep(SweepDays(b1, b2, r1, r2)), ns)
    /\ detection = NoResult
    /\ report = NoResult
    /\ BaselineIdle
    /\ RecoveryIdle
    /\ AnomalyIdle
    /\ DetectorIdle
    /\ ClientIdle
    /\ SleepIdle
    /\ AlertIdle

\* result = detector.detect_illness_signals(readiness_data, sleep_data)
DetectCall ==
    /\ detection' = DetectIllnessSignals(readiness_data, sleep_data)
    /\ UNCHANGED <<readiness_data, sleep_data, report, baselineVars, sleepVars, alertVars, recoveryVars, anomalyVars, detectorVars, clientVars>>

\* the first call on the detector
Detect == detection = NoResult /\ DetectCall

\* detector.format_illness_report(result)
Format ==
    /\ detection # NoResult
    /\ report = NoResult
    /\ report' = FormatIllnessReport(detection)
    /\ UNCHANGED <<readiness_data, sleep_data, detection, baselineVars, sleepVars, alertVars, recoveryVars, anomalyVars, detectorVars, clientVars>>

NextIllness == Detect \/ Format

SpecIllness == InitIllness /\ [][NextIllness]_vars

(***************************************************************************)
(* Illness detection: properties                                           *)
(***************************************************************************)
\* detect_illness_signals has run on a window of at least 7 days
Sufficient == detection # NoResult /\ "pattern" \in DOMAIN detection

BaselinePeriod(ch) ==
    ChannelValues(ch, AllButLastN(readiness_data, 3), AllButLastN(sleep_data, 3))

RecentPeriod(ch) ==
    ChannelValues(ch, LastN(readiness_data, 3), LastN(sleep_data, 3))

\* the channel has data in both periods
ChannelPresent(ch) == BaselinePeriod(ch) # <<>> /\ RecentPeriod(ch) # <<>>

\* severity (tenths) the result reports for a channel, 0 when it holds no signal for it
SeverityOf(ch) ==
    LET hit == SelectSeq(detection.signals, LAMBDA s : s.signal_type = ch)
    IN  IF hit = <<>> THEN 0 ELSE hit[1].severity

Fired == SignalTypes(detection.signals)

RECURSIVE PresentSeverityWeight(_)
PresentSeverityWeight(chs) ==
    IF chs = <<>> THEN 0
    ELSE (IF ChannelPresent(Head(chs))
          THEN SeverityOf(Head(chs)) * SIGNAL_WEIGHTS[Head(chs)] ELSE 0)
         + PresentSeverityWeight(Tail(chs))

RECURSIVE PresentWeight(_)
PresentWeight(chs) ==
    IF chs = <<>> THEN 0
    ELSE (IF ChannelPresent(Head(chs)) THEN SIGNAL_WEIGHTS[Head(chs)] ELSE 0)
         + PresentWeight(Tail(chs))

\* C1: the risk score is 100 * sum(severity * weight) / sum(weight), both sums
\* taken over every channel that has data in the baseline and the recent
\* period, a channel below its elevated threshold counting with severity 0
C1_ScoreNormalisedByPresentChannels ==
    Sufficient =>
        IF PresentWeight(Channels) = 0 THEN detection.risk_score.n = 0
        ELSE FracEQ(detection.risk_score,
                    Frac(PresentSeverityWeight(Channels) * 100, PresentWeight(Channels) * 10))

\* C2: the pattern is the first matching row of the ordered table over the
\* set of fired channels; a fired set holding temperature, hrv, resting_hr and
\* respiratory_rate is classic_infection
C2_PatternFirstMatchWins ==
    Sufficient =>
        LET classic == {"temperature", "hrv", "resting_hr"} \subseteq Fired
            resp    == {"temperature", "respiratory_rate"} \subseteq Fired
            stress  == {"hrv", "resting_hr"} \subseteq Fired /\ "temperature" \notin Fired
            early   == {"temperature", "recovery"} \subseteq Fired
        IN  /\ classic => detection.pattern = "classic_infection"
            /\ (~classic /\ resp) => detection.pattern = "respiratory_infection"
            /\ (~classic /\ ~resp /\ stress) => detection.pattern = "stress_overtraining"
            /\ (~classic /\ ~resp /\ ~stress /\ early) => detection.pattern = "early_infection"
            /\ (~classic /\ ~resp /\ ~stress /\ ~early /\ Fired # {})
                   => detection.pattern = "unknown_pattern"
            /\ Fired = {} => detection.pattern = "None"
            /\ {"temperature", "hrv", "resting_hr", "respiratory_rate"} \subseteq Fired
                   => detection.pattern # "respiratory_infection"

C2_Witness ==
    /\ Sufficient
    /\ {"temperature", "hrv", "resting_hr", "respiratory_rate"} \subseteq Fired
    /\ detection.pattern = "classic_infection"

\* C3: whatever channels fired, at whatever severities, the risk score
\* lies in [0, 100]
C3_RiskScoreInRange ==
    detection # NoResult =>
        /\ FracLE(FracInt(0), detection.risk_score)
        /\ FracLE(detection.risk_score, FracInt(100))

C3_Witness ==
    /\ Sufficient
    /\ Len(detection.signals) >= 3
    /\ {detection.signals[i].severity : i \in 1..Len(detection.signals)} = {4, 7, 10}
    /\ FracLT(FracInt(40), detection.risk_score)
    /\ FracLT(detection.risk_score, FracInt(100))

\* the (elevated, high, critical) ladder of each channel
Ladder ==
    [temperature |-> <<-10, -20, -30>>, hrv |-> <<-15, -25, -35>>,
     resting_hr |-> <<5, 8, 12>>, respiratory_rate |-> <<2, 3, 5>>,
     recovery |-> <<-15, -25, -35>>]

\* recent mean minus baseline mean; for hrv as a percentage of the baseline
\* mean (taken as 0 when that mean is not positive)
LadderMetric(ch) ==
    LET base == mean(BaselinePeriod(ch))
        dev  == FracSub(mean(RecentPeriod(ch)), base)
    IN  IF ch = "hrv" THEN PercentChange(dev, base) ELSE dev

RungsReached(ch) ==
    {i \in 1..3 : IF ch \in {"resting_hr", "respiratory_rate"}
                  THEN FracLE(FracInt(Ladder[ch][i]), LadderMetric(ch))
                  ELSE FracLE(LadderMetric(ch), FracInt(Ladder[ch][i]))}

\* C4: the severity of each channel is the step function of its deviation
\* that counts the rungs of the ladder reached (none: no signal, elevated: 0.4,
\* high: 0.7, critical: 1.0); a channel without baseline data or without
\* recent data emits no signal; hrv mean 65 -> 45 gives 0.7
C4_SeverityLadder ==
    Sufficient =>
        /\ \A ch \in ChannelSet :
              IF ChannelPresent(ch)
              THEN SeverityOf(ch) = <<0, 4, 7, 10>>[Cardinality(RungsReached(ch)) + 1]
              ELSE ch \notin Fired
        /\ (/\ ChannelPresent("hrv")
            /\ FracEQ(mean(BaselinePeriod("hrv")), FracInt(65))
            /\ FracEQ(mean(RecentPeriod("hrv")), FracInt(45)))
           => SeverityOf("hrv") = 7

C4_Witness ==
    /\ Sufficient
    /\ ChannelPresent("hrv")
    /\ FracEQ(mean(BaselinePeriod("hrv")), FracInt(65))
    /\ FracEQ(mean(RecentPeriod("hrv")), FracInt(45))
    /\ SeverityOf("hrv") = 7

\* C25: on a window of at least 7 records the risk level is NORMAL iff no
\* channel fired: a result holding a signal has a risk score of at least 40
\* and the level ELEVATED, HIGH or CRITICAL, and the 'No illness signals
\* detected' recommendation and the None pattern occur exactly when the
\* signal list is empty
C25_NormalIffNoSignal ==
    Sufficient =>
        /\ detection.risk_level = "NORMAL" <=> detection.signals = <<>>
        /\ detection.signals # <<>> =>
              /\ FracLE(FracInt(40), detection.risk_score)
              /\ detection.risk_level \in {"ELEVATED", "HIGH", "CRITICAL"}
        /\ detection.recommendation = "No illness signals detected"
              <=> detection.signals = <<>>
        /\ detection.pattern = "None" <=> detection.signals = <<>>

\* one channel fired at the lowest severity: score 40, level ELEVATED
C25_Witness ==
    /\ Sufficient
    /\ Len(readiness_data) >= 7
    /\ Len(detection.signals) = 1
    /\ detection.signals[1].severity = 4
    /\ FracEQ(detection.risk_score, FracInt(40))
    /\ detection.risk_level = "ELEVATED"
    /\ detection.pattern = "unknown_pattern"
    /\ detection.recommendation = "ELEVATED: Early warning signs detected"

\* C5: the insufficient-data result renders: format_illness_report does not raise on it
C5_InsufficientResultRenders ==
    (detection # NoResult /\ "error" \in DOMAIN detection /\ report # NoResult)
        => report.raised = "None"

(***************************************************************************)
(* Baselines: calculate_baseline on a list, then interpret_deviation of    *)
(* current values against the result                                       *)
(***************************************************************************)
MaxLen == 3
MaxCurrent == 8

ValueGrid == {0, 2, 4, 6, 11}
Currents == 0..MaxCurrent

RECURSIVE ListsUpTo(_)
ListsUpTo(k) ==
    IF k = 0 THEN {<<>>}
    ELSE LET shorter == ListsUpTo(k - 1)
         IN  shorter \cup {Append(l, v) : l \in {x \in shorter : Len(x) = k - 1}, v \in ValueGrid}

InitBaseline ==
    /\ values \in ListsUpTo(MaxLen)
    /\ baseline = NoResult
    /\ current_value = None
    /\ interp = NoResult
    /\ prev_value = None
    /\ prev_interp = NoResult
    /\ sleep_data = <<>>
    /\ IllnessIdle
    /\ SleepIdle
    /\ AlertIdle
    /\ RecoveryIdle
    /\ AnomalyIdle
    /\ DetectorIdle
    /\ ClientIdle

\* baseline = manager.calculate_baseline(values, name)
Calculate ==
    /\ baseline = NoResult
    /\ baseline' = CalculateBaseline(values)
    /\ UNCHANGED <<values, current_value, interp, prev_value, prev_interp,
                   illnessVars, sleep_data, sleepVars, alertVars, recoveryVars, anomalyVars, detectorVars, clientVars>>

\* manager.interpret_deviation(c, baseline); the call before it is remembered
Interpret ==
    /\ baseline # NoResult
    /\ ~IsRaised(baseline)
    /\ \E c \in Currents :
        /\ current_value' = c
        /\ interp' = InterpretDeviation(c, baseline)
    /\ prev_value' = current_value
    /\ prev_interp' = interp
    /\ UNCHANGED <<values, baseline, illnessVars, sleep_data, sleepVars, alertVars, recoveryVars, anomalyVars, detectorVars, clientVars>>

NextBaseline == Calculate \/ Interpret

SpecBaseline == InitBaseline /\ [][NextBaseline]_vars

(***************************************************************************)
(* Baselines: properties                                                   *)
(***************************************************************************)
\* C6: calculate_baseline never raises; the empty list gives all zeros, a
\* single value gives std_dev 0 and mean = min = max = the value, count 1;
\* always count = len(values) and min <= mean <= max
C6_BaselineTotal ==
    baseline # NoResult =>
        /\ ~IsRaised(baseline)
        /\ baseline.count = Len(values)
        /\ FracLE(FracInt(baseline.min), baseline.mean)
        /\ FracLE(baseline.mean, FracInt(baseline.max))
        /\ values = <<>> =>
              /\ baseline.mean.n = 0 /\ baseline.std_dev_sq.n = 0
              /\ baseline.min = 0 /\ baseline.max = 0 /\ baseline.count = 0
        /\ Len(values) = 1 =>
              /\ baseline.std_dev_sq.n = 0
              /\ FracEQ(baseline.mean, FracInt(values[1]))
              /\ baseline.min = values[1] /\ baseline.max = values[1]
              /\ baseline.count = 1

C6_Witness ==
    /\ baseline # NoResult
    /\ Len(values) = 1
    /\ values[1] > 0
    /\ baseline.count = 1
    /\ baseline.std_dev_sq.n = 0

\* the square of |c - mean| / stdev over the list vs, as a fraction (0 when
\* the list has fewer than two values or all values are equal)
StdUnitsSquared(c, vs) ==
    LET n == Len(vs)
        S == SumSeq(vs)
        ss == n * SumSquares(vs) - S * S
    IN  IF n < 2 \/ ss = 0 THEN FracInt(0)
        ELSE Frac((n * c - S) * (n * c - S) * (n - 1), n * ss)

Severity == [unknown |-> 0, normal |-> 1, slightly_abnormal |-> 2,
             moderately_abnormal |-> 3, highly_abnormal |-> 4]

\* C7: the status is the band of |current - mean| / stdev (0 when stdev is 0):
\* < 0.5 normal, < 1.0 slightly_abnormal, < 1.5 moderately_abnormal, else
\* highly_abnormal; of two calls against one baseline the one with the larger
\* |std-units| is never less severe; a baseline with count 0 gives unknown
\* and three zero deviations
C7_StatusBands ==
    interp # NoResult =>
        LET q2 == StdUnitsSquared(current_value, values)
        IN  /\ values = <<>> =>
                  /\ interp.status = "unknown"
                  /\ interp.deviation_absolute = 0
                  /\ interp.deviation_percentage = 0
                  /\ interp.deviation_std = 0
            /\ values # <<>> =>
                  /\ interp.status = "normal" <=> FracLT(q2, Frac(1, 4))
                  /\ interp.status = "slightly_abnormal"
                        <=> (FracLE(Frac(1, 4), q2) /\ FracLT(q2, FracInt(1)))
                  /\ interp.status = "moderately_abnormal"
                        <=> (FracLE(FracInt(1), q2) /\ FracLT(q2, Frac(9, 4)))
                  /\ interp.status = "highly_abnormal" <=> FracLE(Frac(9, 4), q2)
            /\ (prev_interp # NoResult
                /\ FracLE(StdUnitsSquared(prev_value, values), q2))
                  => Severity[prev_interp.status] <= Severity[interp.status]

C7_Witness ==
    /\ interp # NoResult
    /\ prev_interp # NoResult
    /\ values = <<2, 4, 6>>
    /\ prev_value = 5 /\ prev_interp.status = "slightly_abnormal"
    /\ current_value = 1 /\ interp.status = "highly_abnormal"

\* the status the 0.5 / 1.0 / 1.5 cutpoints assign to a deviation_std given
\* in hundredths
StatusOfReported(deviation_std) ==
    IF Abs(deviation_std) < 50 THEN "normal"
    ELSE IF Abs(deviation_std) < 100 THEN "slightly_abnormal"
    ELSE IF Abs(deviation_std) < 150 THEN "moderately_abnormal"
    ELSE "highly_abnormal"

\* C27: against a baseline of count >= 1 the status returned by
\* interpret_deviation is the one the 0.5 / 1.0 / 1.5 cutpoints assign to the
\* deviation_std of the same result, as rounded to two decimals: a result
\* reporting 0.5 or more is never normal, one reporting 1.0 or more never
\* slightly_abnormal, one reporting 1.5 or more always highly_abnormal
C27_StatusMatchesReportedDeviation ==
    (interp # NoResult /\ baseline.count >= 1) =>
        interp.status = StatusOfReported(interp.deviation_std)

(***************************************************************************)
(* utils/alert_system.py                                                   *)
(***************************************************************************)
\* threshold * scale_factor over self.THRESHOLDS, scale_factor the fraction
\* need / 8.0
ScaleRows(scale_factor, rows) ==
    [key \in DOMAIN cls_THRESHOLDS |->
        IF key \in rows
        THEN [level \in DOMAIN cls_THRESHOLDS[key] |->
                 (cls_THRESHOLDS[key][level] * scale_factor.n) \div scale_factor.d]
        ELSE cls_THRESHOLDS[key]]

\* mutant: only the sleep_duration row is scaled
ScaleThresholdsDurationOnly(scale_factor) == ScaleRows(scale_factor, {"sleep_duration"})

ScaleThresholds(scale_factor) == ScaleRows(scale_factor, {"sleep_duration", "sleep_debt"})

\* mutant: the rows are scaled in the class-level dicts themselves
ScaleThresholdsInPlace(scale_factor) ==
    [scaled |-> ScaleThresholds(scale_factor), THRESHOLDS |-> ScaleThresholds(scale_factor)]

\* a call of _scale_thresholds: the dict it returns and the class attribute
\* it leaves behind; the scaled rows are new dicts and the others copies
ScaleThresholdsCall(scale_factor) ==
    [scaled |-> ScaleThresholds(scale_factor), THRESHOLDS |-> cls_THRESHOLDS]

\* AlertSystem(personal_sleep_need): None and 0 fall back to 8.0
AlertSystemInit(personal_sleep_need) ==
    LET need == IF personal_sleep_need # None /\ personal_sleep_need # 0
                THEN personal_sleep_need ELSE Hours(8)
        scale_factor == Frac(need, Hours(8))
    IN  [kind |-> "AlertSystem",
         personal_sleep_need |-> need,
         scale_factor |-> scale_factor,
         scaled_thresholds |-> ScaleThresholds(scale_factor)]

\* metric_value or threshold when it is None
NoValue == Frac(0, 0)

\* metric_value and threshold are fractions; the texts are fixed by the title;
\* timestamp is datetime.now() at construction
HealthAlert(category, severity, title, metric_value, threshold) ==
    [category |-> category, severity |-> severity, title |-> title,
     metric_value |-> metric_value, threshold |-> threshold, timestamp |-> now]

CheckSleepDurationAlerts(self, sleep) ==
    IF sleep = <<>> THEN <<>>
    ELSE LET recent_durations ==
                 [i \in 1..Len(SelectSeq(LastN(sleep, 3),
                                         LAMBDA r : r.total_sleep_duration # None
                                                    /\ r.total_sleep_duration # 0)) |->
                     HoursOfSeconds(SelectSeq(LastN(sleep, 3),
                                         LAMBDA r : r.total_sleep_duration # None
                                                    /\ r.total_sleep_duration # 0)[i].total_sleep_duration)]
             th == self.scaled_thresholds.sleep_duration
         IN  IF recent_durations = <<>> THEN <<>>
             ELSE LET avg_duration == mean(recent_durations)
                      latest_duration == recent_durations[Len(recent_durations)]
                  IN  IF latest_duration < th.critical
                      THEN <<HealthAlert("SLEEP_DURATION", "CRITICAL", "Severe Sleep Deprivation",
                                         FracInt(latest_duration), FracInt(th.critical))>>
                      ELSE IF FracLT(avg_duration, FracInt(th.warning))
                      THEN <<HealthAlert("SLEEP_DURATION", "WARNING", "Insufficient Sleep Duration",
                                         avg_duration, FracInt(th.warning))>>
                      ELSE <<>>

\* mutant: a surplus pays the debt back in full
AlertDebtStepFullPayback(accumulated_debt, session, optimal_hours) ==
    LET duration == HoursOfSeconds(IF session.total_sleep_duration = None THEN 0
                                   ELSE session.total_sleep_duration)
        deficit == optimal_hours - duration
    IN  IF deficit > 0 THEN accumulated_debt + deficit
        ELSE Max(0, accumulated_debt + deficit)

\* mutant: the payback is not floored at 0
AlertDebtStepNoFloor(accumulated_debt, session, optimal_hours) ==
    LET duration == HoursOfSeconds(IF session.total_sleep_duration = None THEN 0
                                   ELSE session.total_sleep_duration)
        deficit == optimal_hours - duration
    IN  IF deficit > 0 THEN accumulated_debt + deficit
        ELSE accumulated_debt + deficit \div 2

\* one iteration of the loop over the last week
AlertDebtStep(accumulated_debt, session, optimal_hours) ==
    LET duration == HoursOfSeconds(IF session.total_sleep_duration = None THEN 0
                                   ELSE session.total_sleep_duration)
        deficit == optimal_hours - duration
    IN  IF deficit > 0 THEN accumulated_debt + deficit
        ELSE Max(0, accumulated_debt + deficit \div 2)

\* accumulated_debt after each iteration, starting from acc
RECURSIVE AlertDebtLoop(_, _, _)
AlertDebtLoop(sessions, acc, optimal_hours) ==
    IF sessions = <<>> THEN <<>>
    ELSE LET next == AlertDebtStep(acc, Head(sessions), optimal_hours)
         IN  <<next>> \o AlertDebtLoop(Tail(sessions), next, optimal_hours)

\* the target the rule measures each night against: optimal_hours = 8.0
AlertOptimalHours(self) == Hours(8)

\* the loop of _check_sleep_debt_alerts (empty when the rule returns early)
AlertDebtTrace(self, sleep) ==
    IF sleep = <<>> \/ Len(sleep) < 3 THEN <<>>
    ELSE AlertDebtLoop(LastN(sleep, 7), 0, AlertOptimalHours(self))

CheckSleepDebtAlerts(self, sleep) ==
    IF sleep = <<>> \/ Len(sleep) < 3 THEN <<>>
    ELSE LET trace == AlertDebtTrace(self, sleep)
             accumulated_debt == trace[Len(trace)]
             th == self.scaled_thresholds.sleep_debt
         IN  IF accumulated_debt >= th.critical
             THEN <<HealthAlert("SLEEP_DEBT", "CRITICAL", "Critical Sleep Debt",
                                FracInt(accumulated_debt), FracInt(th.critical))>>
             ELSE IF accumulated_debt >= th.warning
             THEN <<HealthAlert("SLEEP_DEBT", "WARNING", "Accumulating Sleep Debt",
                                FracInt(accumulated_debt), FracInt(th.warning))>>
             ELSE <<>>

\* a key that is missing from a record's dict (None is a key holding None)
Absent == -2

\* d.get(key), v the entry of the key
Get(v) == IF v = Absent THEN None ELSE v

\* d.get(key, default)
GetOr(v, default) == IF v = Absent THEN default ELSE v

\* bool(d.get(key)) for a number, a non-empty string or None
Truthy(v) == Get(v) # None /\ v # 0

\* [s.get('score', 0) for s in records if s.get('score') is not None]
PresentScores(records) ==
    LET present == SelectSeq(records, LAMBDA r : Get(r.score) # None)
    IN  [i \in 1..Len(present) |-> GetOr(present[i].score, 0)]

\* the two-band score rule shared by _check_sleep_quality_alerts and
\* _check_readiness_alerts: the latest score against critical, else the
\* mean of the recent scores against warning
ScoreBandAlerts(records, th, category, critical_title, warning_title) ==
    IF records = <<>> THEN <<>>
    ELSE LET recent_scores == PresentScores(LastN(records, 3))
         IN  IF recent_scores = <<>> THEN <<>>
             ELSE LET avg_score == mean(recent_scores)
                      latest_score == recent_scores[Len(recent_scores)]
                  IN  IF latest_score < th.critical
                      THEN <<HealthAlert(category, "CRITICAL", critical_title,
                                         FracInt(latest_score), FracInt(th.critical))>>
                      ELSE IF FracLT(avg_score, FracInt(th.warning))
                      THEN <<HealthAlert(category, "WARNING", warning_title,
                                         avg_score, FracInt(th.warning))>>
                      ELSE <<>>

CheckSleepQualityAlerts(self, sleep) ==
    ScoreBandAlerts(sleep, self.scaled_thresholds.sleep_score, "SLEEP_QUALITY",
                    "Critical Sleep Quality", "Declining Sleep Quality")

\* a bedtime_start string is kept as its clock reading HHMM, or Invalid when
\* datetime.fromisoformat rejects it (ValueError, caught: the night is skipped)
Invalid == -3

\* bedtime_dt.hour * 60 + bedtime_dt.minute, a bedtime before noon counted
\* as after midnight
BedtimeMinutes(bedtime_str) ==
    LET hour == bedtime_str \div 100
        minute == bedtime_str % 100
        minutes == hour * 60 + minute
    IN  IF minutes < 12 * 60 THEN minutes + 24 * 60 ELSE minutes

\* the bedtimes list of _check_sleep_consistency_alerts
Bedtimes(sessions) ==
    LET parsed == SelectSeq(sessions, LAMBDA s : Get(s.bedtime_start) # None
                                                 /\ s.bedtime_start # Invalid)
    IN  [i \in 1..Len(parsed) |-> BedtimeMinutes(parsed[i].bedtime_start)]

\* std_hours > 2.0 compared in squares: variance of the minutes > 120^2;
\* metric_value holds std_hours^2
CheckSleepConsistencyAlerts(self, sleep) ==
    IF sleep = <<>> \/ Len(sleep) < 5 THEN <<>>
    ELSE LET bedtimes == Bedtimes(LastN(sleep, 7))
         IN  IF Len(bedtimes) < 5 THEN <<>>
             ELSE LET variance == StatisticsStdev(bedtimes)
                  IN  IF FracLT(FracInt(120 * 120), variance)
                      THEN <<HealthAlert("CONSISTENCY", "WARNING", "Inconsistent Sleep Schedule",
                                         Frac(variance.n, variance.d * 3600), FracInt(2))>>
                      ELSE <<>>

\* the score a night is judged with, in tenths: the score when there is one,
\* else min(100, efficiency * 1.2), else 50
JudgedScore(session) ==
    LET score == Get(session.score)
    IN  IF score = None \/ score = 0
        THEN IF Truthy(session.efficiency)
             THEN Min(1000, GetOr(session.efficiency, 0) * 12)
             ELSE 500
        ELSE score * 10

IsBadNight(self, session) ==
    LET duration_hours == HoursOfSeconds(GetOr(session.total_sleep_duration, 0))
        deficit == self.personal_sleep_need - duration_hours
        score == JudgedScore(session)
    IN  score < 600 \/ (score < 700 /\ deficit > Hours(1))

\* mutant: the walk does not stop at a night that is not bad
RECURSIVE ConsecutiveBadNoBreak(_, _)
ConsecutiveBadNoBreak(self, sessions) ==
    IF sessions = <<>> THEN 0
    ELSE (IF IsBadNight(self, sessions[Len(sessions)]) THEN 1 ELSE 0)
         + ConsecutiveBadNoBreak(self, SubSeq(sessions, 1, Len(sessions) - 1))

\* the loop over reversed(sessions): counts until the first night that is not bad
RECURSIVE ConsecutiveBad(_, _)
ConsecutiveBad(self, sessions) ==
    IF sessions = <<>> THEN 0
    ELSE IF IsBadNight(self, sessions[Len(sessions)])
         THEN 1 + ConsecutiveBad(self, SubSeq(sessions, 1, Len(sessions) - 1))
         ELSE 0

\* consecutive_bad when _check_consecutive_bad_nights returns, None when it
\* returns before the walk
ConsecutiveBadCount(self, sleep) ==
    IF sleep = <<>> \/ Len(sleep) < 3 THEN None
    ELSE ConsecutiveBad(self, LastN(sleep, 7))

CheckConsecutiveBadNights(self, sleep) ==
    IF sleep = <<>> \/ Len(sleep) < 3 THEN <<>>
    ELSE LET count == ConsecutiveBadCount(self, sleep)
             th == self.scaled_thresholds.consecutive_bad_nights
         IN  IF count >= th.critical
             THEN <<HealthAlert("SLEEP_QUALITY", "CRITICAL", "Extended Sleep Crisis",
                                FracInt(count), FracInt(th.critical))>>
             ELSE IF count >= th.warning
             THEN <<HealthAlert("SLEEP_QUALITY", "WARNING", "Consecutive Poor Sleep",
                                FracInt(count), FracInt(th.warning))>>
             ELSE <<>>

CheckReadinessAlerts(self, readiness) ==
    ScoreBandAlerts(readiness, self.scaled_thresholds.readiness_score, "RECOVERY",
                    "Critical Recovery State", "Suboptimal Readiness")

\* [day['contributors'][key] for day in days if it is not None]
Contributor(days, key) ==
    LET present == SelectSeq(days, LAMBDA day : Get(day.contributors[key]) # None)
    IN  [i \in 1..Len(present) |-> present[i].contributors[key]]

CheckHrvAlerts(self, readiness) ==
    IF readiness = <<>> \/ Len(readiness) < 3 THEN <<>>
    ELSE LET hrv_scores == Contributor(LastN(readiness, 7), "hrv_balance")
             th == self.scaled_thresholds.hrv_balance
         IN  IF Len(hrv_scores) < 3 THEN <<>>
             ELSE LET avg_hrv == mean(hrv_scores)
                      latest_hrv == hrv_scores[Len(hrv_scores)]
                  IN  IF latest_hrv < th.critical
                      THEN <<HealthAlert("HRV", "CRITICAL", "Critical HRV Drop",
                                         FracInt(latest_hrv), FracInt(th.critical))>>
                      ELSE IF FracLT(avg_hrv, FracInt(th.warning))
                      THEN <<HealthAlert("HRV", "WARNING", "Declining HRV",
                                         avg_hrv, FracInt(th.warning))>>
                      ELSE <<>>

FracAdd(a, b) == Frac(a.n * b.d + b.n * a.d, a.d * b.d)

CheckRestingHrAlerts(self, readiness) ==
    IF readiness = <<>> \/ Len(readiness) < 7 THEN <<>>
    ELSE LET resting_hrs == Contributor(readiness, "resting_heart_rate")
             th == self.scaled_thresholds.resting_hr_increase
         IN  IF Len(resting_hrs) < 7 THEN <<>>
             ELSE LET baseline_rhr == mean(AllButLastN(resting_hrs, 3))
                      recent_rhr == mean(LastN(resting_hrs, 3))
                      increase == FracSub(recent_rhr, baseline_rhr)
                  IN  IF FracLE(FracInt(th.critical), increase)
                      THEN <<HealthAlert("RESTING_HR", "CRITICAL", "Elevated Resting Heart Rate",
                                         recent_rhr, FracAdd(baseline_rhr, FracInt(th.critical)))>>
                      ELSE IF FracLE(FracInt(th.warning), increase)
                      THEN <<HealthAlert("RESTING_HR", "WARNING", "Rising Resting Heart Rate",
                                         recent_rhr, FracAdd(baseline_rhr, FracInt(th.warning)))>>
                      ELSE <<>>

\* the number of days in the last 7 with (high_activity_time or 0) > 0
HighIntensityDays(activity) ==
    Len(SelectSeq(LastN(activity, 7),
                  LAMBDA a : Truthy(a.high_activity_time) /\ a.high_activity_time > 0))

\* mutant: the warning band is tested on its own, not as the elif of critical
CheckOvertrainingAlertsBothBands(self, readiness, activity) ==
    IF readiness = <<>> \/ activity = <<>> \/ Len(activity) < 7 THEN <<>>
    ELSE LET readiness_scores == PresentScores(LastN(readiness, 7))
             high_intensity_days == HighIntensityDays(activity)
         IN  IF Len(readiness_scores) < 5 THEN <<>>
             ELSE LET avg_readiness == mean(readiness_scores)
                  IN  (IF FracLT(avg_readiness, FracInt(70)) /\ high_intensity_days >= 5
                       THEN <<HealthAlert("OVERTRAINING", "CRITICAL", "Overtraining Risk",
                                          avg_readiness, NoValue)>>
                       ELSE <<>>)
                      \o
                      (IF FracLT(avg_readiness, FracInt(75)) /\ high_intensity_days >= 4
                       THEN <<HealthAlert("OVERTRAINING", "WARNING", "Recovery Imbalance",
                                          avg_readiness, NoValue)>>
                       ELSE <<>>)

CheckOvertrainingAlerts(self, readiness, activity) ==
    IF readiness = <<>> \/ activity = <<>> \/ Len(activity) < 7 THEN <<>>
    ELSE LET readiness_scores == PresentScores(LastN(readiness, 7))
             high_intensity_days == HighIntensityDays(activity)
         IN  IF Len(readiness_scores) < 5 THEN <<>>
             ELSE LET avg_readiness == mean(readiness_scores)
                  IN  IF FracLT(avg_readiness, FracInt(70)) /\ high_intensity_days >= 5
                      THEN <<HealthAlert("OVERTRAINING", "CRITICAL", "Overtraining Risk",
                                         avg_readiness, NoValue)>>
                      ELSE IF FracLT(avg_readiness, FracInt(75)) /\ high_intensity_days >= 4
                      THEN <<HealthAlert("OVERTRAINING", "WARNING", "Recovery Imbalance",
                                         avg_readiness, NoValue)>>
                      ELSE <<>>

\* the loop over reversed(days): counts days below 3000 steps until the
\* first day that is not
RECURSIVE InactiveDays(_)
InactiveDays(days) ==
    IF days = <<>> THEN 0
    ELSE IF GetOr(days[Len(days)].steps, 0) < 3000
         THEN 1 + InactiveDays(SubSeq(days, 1, Len(days) - 1))
         ELSE 0

CheckActivityAlerts(self, activity) ==
    IF activity = <<>> \/ Len(activity) < 3 THEN <<>>
    ELSE LET inactive_days == InactiveDays(LastN(activity, 7))
             th == self.scaled_thresholds.activity_streak
         IN  IF inactive_days >= th.warning
             THEN <<HealthAlert("ACTIVITY", "WARNING", "Prolonged Inactivity",
                                FracInt(inactive_days), FracInt(th.warning))>>
             ELSE <<>>

\* [r.get('score', 0) for r in records[-7:]]: a missing key reads as 0, a
\* key holding None as None
TrendScores(records) ==
    LET week == LastN(records, 7)
    IN  [i \in 1..Len(week) |-> GetOr(week[i].score, 0)]

\* the least-squares slope of values over x = 0 .. n-1, numerator and
\* denominator both multiplied by n^2
CalculateTrend(trend_values) ==
    IF Len(trend_values) < 3 THEN FracInt(0)
    ELSE LET n == Len(trend_values)
             sum_x == (n * (n - 1)) \div 2
             sum_y == SumSeq(trend_values)
             numerator == SumSeq([i \in 1..n |->
                              (n * (i - 1) - sum_x) * (n * trend_values[i] - sum_y)])
             denominator == SumSeq([i \in 1..n |->
                              (n * (i - 1) - sum_x) * (n * (i - 1) - sum_x)])
         IN  IF denominator = 0 THEN FracInt(0) ELSE Frac(numerator, denominator)

\* one half of _check_declining_trends; statistics.mean raises TypeError on
\* a list that holds None
TrendAlerts(records, title) ==
    IF records # <<>> /\ Len(records) >= 7
    THEN LET scores == TrendScores(records)
         IN  IF \E i \in 1..Len(scores) : scores[i] = None
             THEN [raised |-> "TypeError", alerts |-> <<>>]
             ELSE IF Len(scores) >= 5 /\ FracLT(CalculateTrend(scores), FracInt(-3))
             THEN [raised |-> "None",
                   alerts |-> <<HealthAlert("TREND", "WARNING", title, NoValue, NoValue)>>]
             ELSE [raised |-> "None", alerts |-> <<>>]
    ELSE [raised |-> "None", alerts |-> <<>>]

\* the sleep trend first, then the readiness trend
CheckDecliningTrends(self, sleep, readiness, activity) ==
    LET sleep_trend == TrendAlerts(sleep, "Declining Sleep Trend")
        readiness_trend == TrendAlerts(readiness, "Declining Readiness Trend")
    IN  IF sleep_trend.raised # "None" THEN sleep_trend
        ELSE IF readiness_trend.raised # "None" THEN readiness_trend
        ELSE [raised |-> "None", alerts |-> sleep_trend.alerts \o readiness_trend.alerts]

\* the key of the sort: critical first
SortKey(x) ==
    IF x.severity = "CRITICAL" THEN 0
    ELSE IF x.severity = "WARNING" THEN 1
    ELSE 2

\* mutant: an alert goes in front of the alerts that have its key
InsertByKeyBeforeEqual(sorted, x) ==
    LET k == Len(SelectSeq(sorted, LAMBDA a : SortKey(a) < SortKey(x)))
    IN  SubSeq(sorted, 1, k) \o <<x>> \o SubSeq(sorted, k + 1, Len(sorted))

\* x goes behind every alert whose key is not greater: list.sort is stable
InsertByKey(sorted, x) ==
    LET k == Len(SelectSeq(sorted, LAMBDA a : SortKey(a) <= SortKey(x)))
    IN  SubSeq(sorted, 1, k) \o <<x>> \o SubSeq(sorted, k + 1, Len(sorted))

\* alerts.sort(key=...)
RECURSIVE SortAlerts(_)
SortAlerts(s) ==
    IF s = <<>> THEN <<>>
    ELSE InsertByKey(SortAlerts(SubSeq(s, 1, Len(s) - 1)), s[Len(s)])

\* check_all_alerts: the rules in order, then the sort; an exception of a
\* rule leaves the call and nothing is returned
CheckAllAlerts(self, sleep, readiness, activity) ==
    LET trends == CheckDecliningTrends(self, sleep, readiness, activity)
        in_order == CheckSleepQualityAlerts(self, sleep)
                    \o CheckSleepDurationAlerts(self, sleep)
                    \o CheckSleepDebtAlerts(self, sleep)
                    \o CheckSleepConsistencyAlerts(self, sleep)
                    \o CheckConsecutiveBadNights(self, sleep)
                    \o CheckReadinessAlerts(self, readiness)
                    \o CheckHrvAlerts(self, readiness)
                    \o CheckRestingHrAlerts(self, readiness)
                    \o CheckOvertrainingAlerts(self, readiness, activity)
                    \o CheckActivityAlerts(self, activity)
                    \o trends.alerts
    IN  IF trends.raised # "None"
        THEN [raised |-> trends.raised, evaluated |-> <<>>, alerts |-> <<>>]
        ELSE [raised |-> "None", evaluated |-> in_order, alerts |-> SortAlerts(in_order)]

(***************************************************************************)
(* utils/sleep_debt.py                                                     *)
(***************************************************************************)
\* SleepDebtTracker(optimal_sleep_hours): the target in seconds, None when
\* it is to be detected from the data
SleepDebtTrackerInit(optimal_sleep_hours) ==
    [kind |-> "SleepDebtTracker",
     optimal_sleep |-> IF optimal_sleep_hours # None /\ optimal_sleep_hours # 0
                       THEN optimal_sleep_hours * 3600 ELSE None,
     auto_detect |-> optimal_sleep_hours = None]

\* mutant: a surplus pays the debt back in full
TrackerDebtStepFullPayback(accumulated_debt, record, optimal_sleep) ==
    LET total_sleep == IF record.total_sleep_duration = None THEN 0
                       ELSE record.total_sleep_duration
        deficit == total_sleep - optimal_sleep
    IN  IF deficit < 0 THEN accumulated_debt + Abs(deficit)
        ELSE Max(0, accumulated_debt - deficit)

\* one iteration of the loop over the records, in seconds
TrackerDebtStep(accumulated_debt, record, optimal_sleep) ==
    LET total_sleep == IF record.total_sleep_duration = None THEN 0
                       ELSE record.total_sleep_duration
        deficit == total_sleep - optimal_sleep
    IN  IF deficit < 0 THEN accumulated_debt + Abs(deficit)
        ELSE Max(0, accumulated_debt - deficit \div 2)

RECURSIVE TrackerDebtLoop(_, _, _)
TrackerDebtLoop(records, acc, optimal_sleep) ==
    IF records = <<>> THEN <<>>
    ELSE LET next == TrackerDebtStep(acc, Head(records), optimal_sleep)
         IN  <<next>> \o TrackerDebtLoop(Tail(records), next, optimal_sleep)

\* total_debt and the scaled cutpoints are hours; compared in seconds
AssessDebtSeverity(total_debt_sec, optimal_sleep) ==
    IF total_debt_sec * 8 < 2 * optimal_sleep THEN "minimal"
    ELSE IF total_debt_sec * 8 < 8 * optimal_sleep THEN "mild"
    ELSE IF total_debt_sec * 8 < 16 * optimal_sleep THEN "moderate"
    ELSE IF total_debt_sec * 8 < 40 * optimal_sleep THEN "elevated"
    ELSE IF total_debt_sec * 8 < 56 * optimal_sleep THEN "severe"
    ELSE "critical"

\* int(total_debt / recovery_rate), at most 30; the rate is 0.5 when the
\* average deficit is below -0.5 h
EstimateRecoveryTime(total_debt_sec, avg_deficit_sec) ==
    IF total_debt_sec <= 0 THEN 0
    ELSE IF FracLT(avg_deficit_sec, FracInt(-1800))
         THEN Min((2 * total_debt_sec) \div 3600, 30)
         ELSE Min(total_debt_sec \div 3600, 30)

CalculateSleepDebt(self, sleep, lookback_days) ==
    IF sleep = <<>>
    THEN [total_debt |-> 0, avg_daily_deficit |-> 0, days_analyzed |-> 0, status |-> "no_data"]
    ELSE LET data == IF lookback_days # None /\ lookback_days # 0
                     THEN LastN(sleep, lookback_days) ELSE sleep
             daily_deficits == [i \in 1..Len(data) |->
                                   (IF data[i].total_sleep_duration = None THEN 0
                                    ELSE data[i].total_sleep_duration) - self.optimal_sleep]
             trace == TrackerDebtLoop(data, 0, self.optimal_sleep)
             accumulated_debt == trace[Len(trace)]
             avg_deficit == mean(daily_deficits)
         IN  [total_debt_hours |-> RoundHalfEven(accumulated_debt * 100, 3600),
              avg_daily_deficit_hours |-> RoundHalfEven(avg_deficit.n * 100, avg_deficit.d * 3600),
              days_analyzed |-> Len(data),
              days_in_debt |-> Len(SelectSeq(daily_deficits, LAMBDA d : d < 0)),
              days_surplus |-> Len(SelectSeq(daily_deficits, LAMBDA d : d >= 0)),
              severity |-> AssessDebtSeverity(accumulated_debt, self.optimal_sleep),
              recovery_days_estimate |-> EstimateRecoveryTime(accumulated_debt, avg_deficit),
              debt_over_time |-> [i \in 1..Len(data) |->
                                    [sleep_duration |-> HoursOfSeconds(
                                         IF data[i].total_sleep_duration = None THEN 0
                                         ELSE data[i].total_sleep_duration),
                                     deficit |-> (daily_deficits[i] * 16) \div 3600,
                                     accumulated_debt |-> HoursOfSeconds(trace[i])]],
              optimal_sleep_hours |-> RoundHalfEven(self.optimal_sleep * 10, 3600),
              personal_target_used |-> FALSE,
              detection_method |-> "user_specified",
              status |-> "calculated"]

(***************************************************************************)
(* Sleep rules: an AlertSystem or a SleepDebtTracker is constructed, nights *)
(* arrive one by one, and a method is called on the window so far          *)
(***************************************************************************)
MaxNights == 8

\* total_sleep_duration of a night, in seconds: 5 h, 6 h, 9 h
DurationGrid == {18000, 21600, 32400}

\* personal_sleep_need arguments: 6.0, 8.0, 9.0 and the default
NeedArgs == {None, Hours(6), Hours(8), Hours(9)}

\* optimal_sleep_hours arguments
TargetArgs == {7, 8}

Night(sec) == [total_sleep_duration |-> sec]

InitSleep ==
    /\ AlertIdle
    /\ system \in {AlertSystemInit(n) : n \in NeedArgs}
                  \cup {SleepDebtTrackerInit(h) : h \in TargetArgs}
    /\ sleep_data = <<>>
    /\ called = "None"
    /\ alerts = <<>>
    /\ debt_analysis = NoResult
    /\ debt_trace = <<>>
    /\ IllnessIdle
    /\ BaselineIdle
    /\ RecoveryIdle
    /\ AnomalyIdle
    /\ DetectorIdle
    /\ ClientIdle

\* the next night's record arrives
AddNight ==
    /\ called = "None"
    /\ Len(sleep_data) < MaxNights
    /\ \E sec \in DurationGrid : sleep_data' = Append(sleep_data, Night(sec))
    /\ UNCHANGED <<illnessVars, baselineVars, sleepVars, alertVars, recoveryVars, anomalyVars, detectorVars, clientVars>>

\* alerts = system._check_sleep_duration_alerts(sleep_data)
SleepDurationAlerts ==
    /\ system.kind = "AlertSystem"
    /\ called = "None"
    /\ called' = "_check_sleep_duration_alerts"
    /\ alerts' = CheckSleepDurationAlerts(system, sleep_data)
    /\ UNCHANGED <<sleep_data, system, debt_analysis, debt_trace, illnessVars, baselineVars, alertVars, recoveryVars, anomalyVars, detectorVars, clientVars>>

\* alerts = system._check_sleep_debt_alerts(sleep_data)
SleepDebtAlerts ==
    /\ system.kind = "AlertSystem"
    /\ called = "None"
    /\ called' = "_check_sleep_debt_alerts"
    /\ alerts' = CheckSleepDebtAlerts(system, sleep_data)
    /\ debt_trace' = AlertDebtTrace(system, sleep_data)
    /\ UNCHANGED <<sleep_data, system, debt_analysis, illnessVars, baselineVars, alertVars, recoveryVars, anomalyVars, detectorVars, clientVars>>

\* debt_analysis = system.calculate_sleep_debt(sleep_data, None, lookback_days)
SleepDebt ==
    /\ system.kind = "SleepDebtTracker"
    /\ ~system.auto_detect
    /\ called = "None"
    /\ called' = "calculate_sleep_debt"
    /\ \E lookback_days \in {None, 7} :
        /\ debt_analysis' = CalculateSleepDebt(system, sleep_data, lookback_days)
        /\ debt_trace' = IF sleep_data = <<>> THEN <<>>
                         ELSE Column(debt_analysis'.debt_over_time, "accumulated_debt")
    /\ UNCHANGED <<sleep_data, system, alerts, illnessVars, baselineVars, alertVars, recoveryVars, anomalyVars, detectorVars, clientVars>>

NextSleep == AddNight \/ SleepDurationAlerts \/ SleepDebtAlerts \/ SleepDebt

SpecSleep == InitSleep /\ [][NextSleep]_vars

(***************************************************************************)
(* Sleep rules: properties                                                 *)
(***************************************************************************)
LatestNight == sleep_data[Len(sleep_data)].total_sleep_duration

CriticalDurationAlerts ==
    SelectSeq(alerts, LAMBDA a : a.category = "SLEEP_DURATION" /\ a.severity = "CRITICAL")

\* C8: with sleep need N the sleep_duration and sleep_debt thresholds are
\* base * N / 8 and every other threshold is its base value; with N = 6 the
\* critical duration threshold is 4.5 h and a latest night of 5 h raises no
\* CRITICAL sleep-duration alert, with N = 8 it does
C8_ThresholdsScaleWithNeed ==
    system.kind = "AlertSystem" =>
        /\ \A key \in DOMAIN ALERT_THRESHOLDS : \A level \in DOMAIN ALERT_THRESHOLDS[key] :
              IF key \in {"sleep_duration", "sleep_debt"}
              THEN system.scaled_thresholds[key][level] * Hours(8)
                       = ALERT_THRESHOLDS[key][level] * system.personal_sleep_need
              ELSE system.scaled_thresholds[key][level] = ALERT_THRESHOLDS[key][level]
        /\ system.personal_sleep_need = Hours(6)
              => 2 * system.scaled_thresholds.sleep_duration.critical = Hours(9)
        /\ (called = "_check_sleep_duration_alerts" /\ sleep_data # <<>> /\ LatestNight = 5 * 3600)
              => /\ system.personal_sleep_need = Hours(6) => CriticalDurationAlerts = <<>>
                 /\ system.personal_sleep_need = Hours(8) => Len(CriticalDurationAlerts) = 1

C8_Witness ==
    /\ system.kind = "AlertSystem"
    /\ system.personal_sleep_need = Hours(6)
    /\ called = "_check_sleep_duration_alerts"
    /\ sleep_data # <<>>
    /\ LatestNight = 5 * 3600
    /\ CriticalDurationAlerts = <<>>

\* the accumulation as stated: max(0, need - duration) is added per night,
\* a night above the need pays back half its surplus, never below 0
RECURSIVE StatedDebtLoop(_, _, _)
StatedDebtLoop(nights, acc, need) ==
    IF nights = <<>> THEN <<>>
    ELSE LET duration == HoursOfSeconds(Head(nights).total_sleep_duration)
             next == IF duration > need
                     THEN Max(0, acc - (duration - need) \div 2)
                     ELSE acc + Max(0, need - duration)
         IN  <<next>> \o StatedDebtLoop(Tail(nights), next, need)

\* C9: the sleep-debt rule walks the last 7 records and accumulates against
\* the personal sleep need the instance was constructed with
C9_DebtAgainstPersonalNeed ==
    (called = "_check_sleep_debt_alerts" /\ Len(sleep_data) >= 3)
        => debt_trace = StatedDebtLoop(LastN(sleep_data, 7), 0, system.personal_sleep_need)

\* the nights a debt loop has processed, and the target it measured them against
ProcessedNights == LastN(sleep_data, Len(debt_trace))

DebtTarget ==
    IF system.kind = "AlertSystem" THEN Hours(8)
    ELSE HoursOfSeconds(system.optimal_sleep)

DebtBefore(i) == IF i = 1 THEN 0 ELSE debt_trace[i - 1]

\* C10: the accumulated debt is >= 0 after every processed night and strictly
\* greater than before after each night shorter than the target; target 8 h
\* and nights of 6, 6, 9 h give 2, 4, 3.5 h
C10_DebtNonNegativeAndAccruing ==
    called \in {"_check_sleep_debt_alerts", "calculate_sleep_debt"} =>
        /\ \A i \in 1..Len(debt_trace) :
              /\ debt_trace[i] >= 0
              /\ HoursOfSeconds(ProcessedNights[i].total_sleep_duration) < DebtTarget
                    => debt_trace[i] > DebtBefore(i)
        /\ (DebtTarget = Hours(8)
            /\ sleep_data = <<Night(6 * 3600), Night(6 * 3600), Night(9 * 3600)>>)
              => debt_trace = <<Hours(2), Hours(4), Hours(4) - Hours(1) \div 2>>

C10_Witness ==
    /\ called = "_check_sleep_debt_alerts"
    /\ sleep_data = <<Night(6 * 3600), Night(6 * 3600), Night(9 * 3600)>>
    /\ debt_trace = <<32, 64, 56>>

\* the surplus of processed night i over the target, in sixteenths of an hour
Surplus(i) == HoursOfSeconds(ProcessedNights[i].total_sleep_duration) - DebtTarget

\* C11 as stated: on every night longer than the target the accumulated debt
\* after the night is the debt before it minus half the night's surplus,
\* whatever the debt before
C11_SurplusPaysBackExactlyHalf ==
    called \in {"_check_sleep_debt_alerts", "calculate_sleep_debt"} =>
        \A i \in 1..Len(debt_trace) :
            Surplus(i) > 0 => 2 * debt_trace[i] = 2 * DebtBefore(i) - Surplus(i)

\* C11 amended: on every night longer than the target the accumulated debt
\* after the night is max(0, debt before - half the surplus): the payback
\* is exactly 50% of the surplus unless that would take the debt below 0
C11_SurplusPaysBackHalfFloored ==
    called \in {"_check_sleep_debt_alerts", "calculate_sleep_debt"} =>
        \A i \in 1..Len(debt_trace) :
            Surplus(i) > 0 => 2 * debt_trace[i] = Max(0, 2 * DebtBefore(i) - Surplus(i))

\* a tracker run with a surplus night that pays back half its surplus and a
\* surplus night whose payback is cut off at 0
C11_Witness ==
    /\ called = "calculate_sleep_debt"
    /\ \E i \in 1..Len(debt_trace) :
          Surplus(i) > 0 /\ debt_trace[i] > 0 /\ debt_trace[i] < DebtBefore(i)
    /\ \E j \in 1..Len(debt_trace) :
          Surplus(j) > 0 /\ 2 * DebtBefore(j) < Surplus(j) /\ debt_trace[j] = 0

\* the last entry of a debt trace
FinalDebt(trace) == trace[Len(trace)]

\* the final accumulated debt (sixteenths of an hour) of
\* SleepDebtTracker(optimal_sleep_hours=8).calculate_sleep_debt(sleep_data)
TrackerFinalDebt ==
    HoursOfSeconds(FinalDebt(TrackerDebtLoop(sleep_data, 0,
                                             SleepDebtTrackerInit(8).optimal_sleep)))

\* the accumulated debt of the sleep-debt rule of AlertSystem() on sleep_data
AlertFinalDebt == FinalDebt(AlertDebtTrace(AlertSystemInit(None), sleep_data))

MaxWindow == 8

SleepSession(score, duration, efficiency, bedtime) ==
    [score |-> score, total_sleep_duration |-> duration,
     efficiency |-> efficiency, bedtime_start |-> bedtime]

ReadinessDay(score, hrv, rhr) ==
    [score |-> score,
     contributors |-> [hrv_balance |-> hrv, resting_heart_rate |-> rhr]]

ActivityDay(steps, high) == [steps |-> steps, high_activity_time |-> high]

\* nights by kind: a good night, a night with a low score, a night with a
\* middling score and 5 h of sleep, a night without score and low efficiency
SleepKind ==
    [good   |-> SleepSession(80, 8 * 3600, 90, 2300),
     low    |-> SleepSession(55, 8 * 3600, 70, 2330),
     middle |-> SleepSession(65, 5 * 3600, 80, 130),
     short  |-> SleepSession(75, 4 * 3600, 85, 2000),
     proxy  |-> SleepSession(None, 7 * 3600, 45, Invalid)]

WalkKinds == {"good", "low", "middle"}

\* every window of at most k nights of the walk kinds
RECURSIVE WalkWindows(_)
WalkWindows(k) ==
    IF k = 0 THEN {<<>>}
    ELSE LET shorter == WalkWindows(k - 1)
         IN  shorter \cup {Append(w, SleepKind[kind]) :
                              w \in {v \in shorter : Len(v) = k - 1}, kind \in WalkKinds}

ScoreGrid == {None, Absent, 0, 50, 59, 60, 69, 70, 100}
EfficiencyGrid == {None, Absent, 0, 40, 49, 50, 58, 59, 90}
NightDurations == {5 * 3600, 6 * 3600 + 1800, 7 * 3600, 8 * 3600}

\* n nights whose scores fall by step a night from 90, night missing
\* (0: none) holding lost in place of its score
FallingScores(n, step, missing, lost) ==
    [i \in 1..n |-> SleepSession(IF i = missing THEN lost ELSE 90 - step * (i - 1),
                                 8 * 3600, 90, 2300)]

ReadinessKind ==
    [good    |-> ReadinessDay(85, 80, 50),
     fair    |-> ReadinessDay(72, 65, 57),
     middle  |-> ReadinessDay(68, 58, 60),
     low     |-> ReadinessDay(55, 45, 62),
     unknown |-> ReadinessDay(None, None, None)]

ReadinessKinds == DOMAIN ReadinessKind

\* n records: the last 3 of kind recent, the ones before of kind old
TwoPhase(kinds, old, recent, n) ==
    [i \in 1..n |-> IF i <= n - 3 THEN kinds[old] ELSE kinds[recent]]

\* n days of which the first high are days of high-intensity training and
\* the rest days of little activity
ActivityWindow(high, n) ==
    [i \in 1..n |-> IF i <= high THEN ActivityDay(8000, 1800)
                    ELSE ActivityDay(IF i = n THEN Absent ELSE 1000,
                                     IF i = n THEN None ELSE 0)]

WindowLengths == {0, 3, 7, MaxWindow}

AlertNeeds == {Hours(6), Hours(8)}

InitAlerts ==
    /\ now = 0
    /\ consecutive_bad = None
    /\ evaluated = <<>>
    /\ exception = "None"
    /\ cls_THRESHOLDS = ALERT_THRESHOLDS
    /\ instances = <<>>
    /\ system \in {AlertSystemInit(n) : n \in AlertNeeds}
    /\ called = "None"
    /\ alerts = <<>>
    /\ debt_analysis = NoResult
    /\ debt_trace = <<>>
    /\ \/ /\ sleep_data \in WalkWindows(MaxWindow)
          /\ readiness_data = <<>>
          /\ activity_data = <<>>
       \/ /\ \E score \in ScoreGrid, efficiency \in EfficiencyGrid, duration \in NightDurations :
                sleep_data = <<SleepKind["low"], SleepKind["good"], SleepKind["low"],
                               SleepKind["low"],
                               SleepSession(score, duration, efficiency, 2300)>>
          /\ readiness_data = <<>>
          /\ activity_data = <<>>
       \/ /\ \E n \in {7, MaxWindow}, step \in {0, 3, 4, 5}, missing \in 0..7,
                lost \in {None, Absent} :
                sleep_data = FallingScores(n, step, missing, lost)
          /\ readiness_data \in {<<>>, TwoPhase(ReadinessKind, "good", "unknown", 7)}
          /\ activity_data = <<>>
       \/ /\ sleep_data \in {<<>>,
                             TwoPhase(SleepKind, "good", "short", 7),
                             TwoPhase(SleepKind, "low", "proxy", MaxWindow)}
          /\ \E old \in ReadinessKinds, recent \in ReadinessKinds, n \in WindowLengths :
                readiness_data = TwoPhase(ReadinessKind, old, recent, n)
          /\ \E n \in WindowLengths : \E high \in 0..n :
                activity_data = ActivityWindow(high, n)
    /\ IllnessIdleResults
    /\ BaselineIdle
    /\ RecoveryIdle
    /\ AnomalyIdle
    /\ DetectorIdle
    /\ ClientIdle

\* alerts = system.check_all_alerts(sleep_data, readiness_data, activity_data)
CheckAllCall ==
    /\ called' = "check_all_alerts"
    /\ LET result == CheckAllAlerts(system, sleep_data, readiness_data, activity_data)
       IN  /\ exception' = result.raised
           /\ evaluated' = result.evaluated
           /\ alerts' = result.alerts
    /\ consecutive_bad' = ConsecutiveBadCount(system, sleep_data)
    /\ UNCHANGED <<sleep_data, readiness_data, activity_data, system, now,
                   cls_THRESHOLDS, instances, debt_analysis, debt_trace,
                   detection, report, baselineVars, recoveryVars, anomalyVars, detectorVars, clientVars>>

\* the first call on the instance
CheckAll == called = "None" /\ CheckAllCall

\* alerts = system._check_consecutive_bad_nights(sleep_data)
ConsecutiveBadNights ==
    /\ called = "None"
    /\ called' = "_check_consecutive_bad_nights"
    /\ alerts' = CheckConsecutiveBadNights(system, sleep_data)
    /\ consecutive_bad' = ConsecutiveBadCount(system, sleep_data)
    /\ UNCHANGED <<sleep_data, readiness_data, activity_data, system, now,
                   evaluated, exception, cls_THRESHOLDS, instances, debt_analysis,
                   debt_trace, detection, report, baselineVars, recoveryVars, anomalyVars, detectorVars, clientVars>>

NextAlerts == CheckAll \/ ConsecutiveBadNights

SpecAlerts == InitAlerts /\ [][NextAlerts]_vars

(***************************************************************************)
(* Alert rules: properties                                                 *)
(***************************************************************************)
Returned == called = "check_all_alerts" /\ exception = "None"

SeverityRank(severity) ==
    CASE severity = "CRITICAL" -> 0
      [] severity = "WARNING"  -> 1
      [] severity = "INFO"     -> 2

\* the place of an alert's rule in the stated order of evaluation
RuleOrder(title) ==
    CASE title \in {"Critical Sleep Quality", "Declining Sleep Quality"}            -> 1
      [] title \in {"Severe Sleep Deprivation", "Insufficient Sleep Duration"}      -> 2
      [] title \in {"Critical Sleep Debt", "Accumulating Sleep Debt"}               -> 3
      [] title = "Inconsistent Sleep Schedule"                                      -> 4
      [] title \in {"Extended Sleep Crisis", "Consecutive Poor Sleep"}              -> 5
      [] title \in {"Critical Recovery State", "Suboptimal Readiness"}              -> 6
      [] title \in {"Critical HRV Drop", "Declining HRV"}                           -> 7
      [] title \in {"Elevated Resting Heart Rate", "Rising Resting Heart Rate"}     -> 8
      [] title \in {"Overtraining Risk", "Recovery Imbalance"}                      -> 9
      [] title = "Prolonged Inactivity"                                             -> 10
      [] title = "Declining Sleep Trend"                                            -> 11
      [] title = "Declining Readiness Trend"                                        -> 12

\* the number of positions of s that hold x
Occurrences(s, x) == Cardinality({i \in 1..Len(s) : s[i] = x})

\* C12: in the returned list every CRITICAL alert precedes every WARNING and
\* every WARNING every INFO alert, alerts of equal severity stand in the
\* order their rules are evaluated in, and the returned list holds exactly
\* the alerts the rules raised, each as often as it was raised
C12_SortedBySeverityStable ==
    Returned =>
        /\ \A i, j \in 1..Len(alerts) :
              i < j =>
                 \/ SeverityRank(alerts[i].severity) < SeverityRank(alerts[j].severity)
                 \/ /\ alerts[i].severity = alerts[j].severity
                    /\ RuleOrder(alerts[i].title) < RuleOrder(alerts[j].title)
        /\ Len(alerts) = Len(evaluated)
        /\ \A i \in 1..Len(evaluated) :
              Occurrences(alerts, evaluated[i]) = Occurrences(evaluated, evaluated[i])
        /\ \A i, j \in 1..Len(evaluated) :
              i < j => RuleOrder(evaluated[i].title) < RuleOrder(evaluated[j].title)

\* a call in which a rule raised a WARNING before a later rule raised a
\* CRITICAL alert, and two rules raised alerts of the same severity
C12_Witness ==
    /\ Returned
    /\ \E i, j \in 1..Len(evaluated) :
          i < j /\ evaluated[i].severity = "WARNING" /\ evaluated[j].severity = "CRITICAL"
    /\ \E i, j \in 1..Len(alerts) :
          i < j /\ alerts[i].severity = "WARNING" /\ alerts[j].severity = "WARNING"
    /\ alerts # evaluated

\* the last 7 nights of the window
Week == LastN(sleep_data, 7)

StatedDeficitOverOneHour(session) ==
    system.personal_sleep_need * 3600 - 16 * session.total_sleep_duration > 16 * 3600

\* min(100, efficiency * 1.2) in tenths, a missing efficiency taken as 0
StatedProxy(session) ==
    IF session.efficiency \in {None, Absent} THEN 0
    ELSE Min(1000, 12 * session.efficiency)

\* a bad night as stated: only a missing score is replaced by the proxy
StatedBadNight(session) ==
    LET score == IF session.score \in {None, Absent} THEN StatedProxy(session)
                 ELSE 10 * session.score
    IN  score < 600 \/ (score < 700 /\ StatedDeficitOverOneHour(session))

\* a bad night when a score of 0 counts as missing too, and the proxy is 50
\* when the efficiency is missing or 0
AmendedBadNight(session) ==
    LET proxy == IF session.efficiency \in {None, Absent, 0} THEN 500
                 ELSE StatedProxy(session)
        score == IF session.score \in {None, Absent, 0} THEN proxy
                 ELSE 10 * session.score
    IN  score < 600 \/ (score < 700 /\ StatedDeficitOverOneHour(session))

BadNightsRuleRan ==
    /\ called \in {"check_all_alerts", "_check_consecutive_bad_nights"}
    /\ Len(sleep_data) >= 3

\* C13 as stated: the count is the length of the run of bad nights that
\* ends at the most recent of the last 7 records, at most 7; a night is bad
\* iff score < 60 or score < 70 and need - duration > 1 h, a missing score
\* replaced by min(100, efficiency * 1.2)
C13_TrailingRunOfBadNights ==
    BadNightsRuleRan =>
        /\ consecutive_bad \in 0..Min(7, Len(Week))
        /\ \A i \in 1..Len(Week) :
              i > Len(Week) - consecutive_bad => StatedBadNight(Week[i])
        /\ consecutive_bad < Len(Week)
              => ~StatedBadNight(Week[Len(Week) - consecutive_bad])

\* C13 amended: the same, a night whose score is missing or 0 being judged
\* with the proxy min(100, efficiency * 1.2), or 50 when the efficiency is
\* missing or 0 as well
C13_TrailingRunScoreZeroAsMissing ==
    BadNightsRuleRan =>
        /\ consecutive_bad \in 0..Min(7, Len(Week))
        /\ \A i \in 1..Len(Week) :
              i > Len(Week) - consecutive_bad => AmendedBadNight(Week[i])
        /\ consecutive_bad < Len(Week)
              => ~AmendedBadNight(Week[Len(Week) - consecutive_bad])

\* eight nights: the oldest is bad and outside the last 7, the next is not
\* bad, and the six after it are the run that is counted
C13_Witness ==
    /\ called = "_check_consecutive_bad_nights"
    /\ Len(sleep_data) = 8
    /\ AmendedBadNight(sleep_data[1])
    /\ ~AmendedBadNight(sleep_data[2])
    /\ consecutive_bad = 6
    /\ Len(alerts) = 1 /\ alerts[1].title = "Extended Sleep Crisis"

HasTitle(title) == \E i \in 1..Len(alerts) : alerts[i].title = title

TitleCount(titles) == Cardinality({i \in 1..Len(alerts) : alerts[i].title \in titles})

\* the alerts of each rule that has a critical and a warning band
TwoBandRules ==
    {<<"Critical Sleep Quality", "Declining Sleep Quality">>,
     <<"Severe Sleep Deprivation", "Insufficient Sleep Duration">>,
     <<"Critical Sleep Debt", "Accumulating Sleep Debt">>,
     <<"Extended Sleep Crisis", "Consecutive Poor Sleep">>,
     <<"Critical Recovery State", "Suboptimal Readiness">>,
     <<"Critical HRV Drop", "Declining HRV">>,
     <<"Elevated Resting Heart Rate", "Rising Resting Heart Rate">>,
     <<"Overtraining Risk", "Recovery Imbalance">>}

\* the readiness scores of the last 7 days, and whether the overtraining
\* rule has the data it needs: 5 scores and 7 days of activity
WeekReadinessScores ==
    SelectSeq(Column(LastN(readiness_data, 7), "score"), LAMBDA x : x \notin {None, Absent})

OvertrainingData == Len(activity_data) >= 7 /\ Len(WeekReadinessScores) >= 5

MeanReadinessBelow(x) == SumSeq(WeekReadinessScores) < x * Len(WeekReadinessScores)

WeekHighIntensityDays ==
    Cardinality({i \in 1..Len(LastN(activity_data, 7)) :
                    LastN(activity_data, 7)[i].high_activity_time > 0})

PresentPoints(records) ==
    LET week == LastN(records, 7)
    IN  {<<i, week[i].score>> : i \in {k \in 1..Len(week) : week[k].score \notin {None, Absent}}}

RECURSIVE SumOver(_, _, _)
SumOver(points, a, b) ==
    IF points = {} THEN 0
    ELSE LET p == CHOOSE q \in points : TRUE
         IN  (IF a = 0 THEN 1 ELSE p[a]) * (IF b = 0 THEN 1 ELSE p[b])
             + SumOver(points \ {p}, a, b)

\* the least-squares slope over the present points is below -3
StatedDecline(records) ==
    LET points == PresentPoints(records)
        n == Cardinality(points)
        numerator == n * SumOver(points, 1, 2) - SumOver(points, 1, 0) * SumOver(points, 2, 0)
        denominator == n * SumOver(points, 1, 1) - SumOver(points, 1, 0) * SumOver(points, 1, 0)
    IN  /\ Len(records) >= 7
        /\ denominator > 0
        /\ numerator < -3 * denominator

\* C16: a record without score contributes no point to the slope of the
\* declining-trend rule, is not counted as a score of 0 and does not make
\* check_all_alerts raise; the WARNING fires iff the slope over the scores
\* present among the last 7 records is below -3
C16_MissingScoreOmittedFromTrend ==
    called = "check_all_alerts" =>
        /\ exception = "None"
        /\ HasTitle("Declining Sleep Trend") <=> StatedDecline(sleep_data)
        /\ HasTitle("Declining Readiness Trend") <=> StatedDecline(readiness_data)

(***************************************************************************)
(* Repeated calls: the clock advances between calls of check_all_alerts on *)
(* one AlertSystem, or of detect_illness_signals on one IllnessDetector,   *)
(* with the windows left as they are                                       *)
(***************************************************************************)
MaxClock == 2

IllnessDetectorInit == [kind |-> "IllnessDetector"]

RepeatLevels == {"normal", "elevated", "critical"}

InitRepeat ==
    /\ now = 0
    /\ consecutive_bad = None
    /\ evaluated = <<>>
    /\ exception = "None"
    /\ cls_THRESHOLDS = ALERT_THRESHOLDS
    /\ instances = <<>>
    /\ called = "None"
    /\ alerts = <<>>
    /\ debt_analysis = NoResult
    /\ debt_trace = <<>>
    /\ \/ /\ system \in {AlertSystemInit(n) : n \in AlertNeeds}
          /\ sleep_data \in WalkWindows(3)
          /\ readiness_data \in {TwoPhase(ReadinessKind, "good", recent, 7) :
                                     recent \in {"good", "low"}}
          /\ activity_data \in {<<>>, ActivityWindow(7, 7)}
       \/ /\ system = IllnessDetectorInit
          /\ \E p \in [ChannelSet -> RepeatLevels], n \in {6, 7} :
                /\ readiness_data = ProfileReadiness(p, n)
                /\ sleep_data = ProfileSleep(p, n)
          /\ activity_data = <<>>
    /\ IllnessIdleResults
    /\ BaselineIdle
    /\ RecoveryIdle
    /\ AnomalyIdle
    /\ DetectorIdle
    /\ ClientIdle

\* time passes
Tick ==
    /\ now < MaxClock
    /\ now' = now + 1
    /\ UNCHANGED <<illnessVars, sleep_data, baselineVars, sleepVars, activity_data,
                   consecutive_bad, evaluated, exception, cls_THRESHOLDS, instances, recoveryVars, anomalyVars, detectorVars, clientVars>>

\* a call of check_all_alerts, the first or a later one
CheckAllAgain == system.kind = "AlertSystem" /\ CheckAllCall

\* a call of detect_illness_signals, the first or a later one
DetectAgain == system.kind = "IllnessDetector" /\ DetectCall

NextRepeat == Tick \/ CheckAllAgain \/ DetectAgain

SpecRepeat == InitRepeat /\ [][NextRepeat]_vars

\* C15: a call of check_all_alerts, or of detect_illness_signals, on the
\* windows of an earlier call returns what the earlier call returned, every
\* field of every alert and signal included, whatever the time between them
C15_RepeatedCallsAgree ==
    [][/\ called = "check_all_alerts" => alerts' = alerts
       /\ detection # NoResult => detection' = detection]_vars

(***************************************************************************)
(* Several instances: AlertSystems with different sleep needs are          *)
(* constructed and checked in any order                                    *)
(***************************************************************************)
MaxInstances == 3

\* three nights of the same length with a good score
SameNights(duration) == [i \in 1..3 |-> SleepSession(80, duration, 90, 2300)]

InitInstances ==
    /\ now = 0
    /\ consecutive_bad = None
    /\ evaluated = <<>>
    /\ exception = "None"
    /\ cls_THRESHOLDS = ALERT_THRESHOLDS
    /\ instances = <<>>
    /\ system = NoResult
    /\ called = "None"
    /\ alerts = <<>>
    /\ debt_analysis = NoResult
    /\ debt_trace = <<>>
    /\ sleep_data \in {SameNights(5 * 3600), SameNights(6 * 3600), SameNights(8 * 3600)}
    /\ readiness_data = <<>>
    /\ activity_data = <<>>
    /\ IllnessIdleResults
    /\ BaselineIdle
    /\ RecoveryIdle
    /\ AnomalyIdle
    /\ DetectorIdle
    /\ ClientIdle

\* instances.append(AlertSystem(personal_sleep_need))
Construct ==
    /\ Len(instances) < MaxInstances
    /\ \E personal_sleep_need \in NeedArgs :
          LET self == AlertSystemInit(personal_sleep_need)
              scaling == ScaleThresholdsCall(self.scale_factor)
          IN  /\ instances' = Append(instances, [self EXCEPT !.scaled_thresholds = scaling.scaled])
              /\ cls_THRESHOLDS' = scaling.THRESHOLDS
    /\ UNCHANGED <<illnessVars, sleep_data, baselineVars, sleepVars, activity_data,
                   now, consecutive_bad, evaluated, exception, recoveryVars, anomalyVars, detectorVars, clientVars>>

\* alerts = instances[i].check_all_alerts(sleep_data, readiness_data, activity_data)
CheckInstance ==
    \E i \in 1..Len(instances) :
        /\ system' = instances[i]
        /\ called' = "check_all_alerts"
        /\ LET result == CheckAllAlerts(instances[i], sleep_data, readiness_data, activity_data)
           IN  /\ exception' = result.raised
               /\ evaluated' = result.evaluated
               /\ alerts' = result.alerts
        /\ consecutive_bad' = ConsecutiveBadCount(instances[i], sleep_data)
        /\ UNCHANGED <<sleep_data, readiness_data, activity_data, now, cls_THRESHOLDS,
                       instances, debt_analysis, debt_trace, detection, report, baselineVars, recoveryVars, anomalyVars, detectorVars, clientVars>>

NextInstances == Construct \/ CheckInstance

SpecInstances == InitInstances /\ [][NextInstances]_vars

\* the thresholds of an instance are those of its own sleep need
OwnThresholds(self) ==
    \A key \in DOMAIN ALERT_THRESHOLDS : \A level \in DOMAIN ALERT_THRESHOLDS[key] :
        IF key \in {"sleep_duration", "sleep_debt"}
        THEN self.scaled_thresholds[key][level] * Hours(8)
                 = ALERT_THRESHOLDS[key][level] * self.personal_sleep_need
        ELSE self.scaled_thresholds[key][level] = ALERT_THRESHOLDS[key][level]

\* C17: whatever instances were constructed and checked before, the class
\* attribute THRESHOLDS is the table of the class body, the thresholds of
\* every instance are those of its own sleep need, and a check of an
\* instance raises the CRITICAL sleep-duration alert iff the latest night is
\* below 6 h * own need / 8
C17_ClassThresholdsUnchanged ==
    /\ cls_THRESHOLDS = ALERT_THRESHOLDS
    /\ \A i \in 1..Len(instances) : OwnThresholds(instances[i])
    /\ called = "check_all_alerts" =>
          /\ OwnThresholds(system)
          /\ HasTitle("Severe Sleep Deprivation")
                <=> HoursOfSeconds(sleep_data[3].total_sleep_duration) * Hours(8)
                       < Hours(6) * system.personal_sleep_need

\* an instance with need 6 h, constructed before one with need 9 h, is
\* checked on nights of 5 h and raises no CRITICAL sleep-duration alert
C17_Witness ==
    /\ Len(instances) >= 2
    /\ instances[1].personal_sleep_need = Hours(6)
    /\ instances[2].personal_sleep_need = Hours(9)
    /\ called = "check_all_alerts"
    /\ system = instances[1]
    /\ sleep_data = SameNights(5 * 3600)
    /\ ~HasTitle("Severe Sleep Deprivation")

(***************************************************************************)
(* utils/interpretation.py  InterpretationEngine                           *)
(*                                                                         *)
(* resting_hr_deviation is a float number of bpm and is kept in tenths;    *)
(* the weighted sum is kept in hundredths of a point, which is exact for   *)
(* integer scores, and a float rounded to one decimal is kept in tenths    *)
(***************************************************************************)
\* round(x, 1) for x = hundredths / 100, in tenths.  The sum of the float
\* products of a value that ends in 5 hundredths lies a rounding error to
\* one or the other side of the decimal x.x5, so either neighbour can be
\* the result
Round1(hundredths) ==
    IF hundredths % 10 = 5
    THEN {hundredths \div 10, hundredths \div 10 + 1}
    ELSE {(hundredths + 5) \div 10}

\* mutant: the resting-HR term is not floored at 0
RecoveryScoreNoFloor(readiness, hrv_balance, resting_hr_deviation, sleep_score, temperature_score) ==
    hrv_balance * 35 + readiness * 30 + sleep_score * 20
        + (100 - Abs(resting_hr_deviation)) * 10 + temperature_score * 5

\* the local recovery_score of interpret_recovery_state, in hundredths;
\* abs(resting_hr_deviation) * 10 is the stored number of tenths
RecoveryScore(readiness, hrv_balance, resting_hr_deviation, sleep_score, temperature_score) ==
    hrv_balance * 35 + readiness * 30 + sleep_score * 20
        + Max(0, 100 - Abs(resting_hr_deviation)) * 10 + temperature_score * 5

\* the if / elif chain of the recovery state; confidence in hundredths.  The
\* emoji, a constant of the branch, is left out
RecoveryTier(recovery_score) ==
    IF recovery_score >= 80 * 100
    THEN [state |-> "Fully Recovered",
          description |-> "All systems green - optimal state",
          training_recommendation |-> "Ready for high-intensity or long-duration training",
          confidence |-> 90]
    ELSE IF recovery_score >= 70 * 100
    THEN [state |-> "Well Recovered",
          description |-> "Good recovery - ready for normal training",
          training_recommendation |-> "Suitable for moderate to high intensity work",
          confidence |-> 85]
    ELSE IF recovery_score >= 60 * 100
    THEN [state |-> "Adequately Recovered",
          description |-> "Moderate recovery - some fatigue present",
          training_recommendation |-> "Light to moderate intensity recommended",
          confidence |-> 75]
    ELSE IF recovery_score >= 50 * 100
    THEN [state |-> "Partially Recovered",
          description |-> "Incomplete recovery - significant fatigue",
          training_recommendation |-> "Very light activity only; prioritize recovery",
          confidence |-> 70]
    ELSE [state |-> "Not Recovered",
          description |-> "Body under significant stress",
          training_recommendation |-> "Rest day strongly recommended",
          confidence |-> 85]

\* interpret_recovery_state: the dicts the call can return, one for each
\* outcome of round(recovery_score, 1)
InterpretRecoveryState(readiness, hrv_balance, resting_hr_deviation, sleep_score, temperature_score) ==
    LET recovery_score == RecoveryScore(readiness, hrv_balance, resting_hr_deviation,
                                        sleep_score, temperature_score)
        tier == RecoveryTier(recovery_score)
    IN  {[state |-> tier.state,
          recovery_score |-> rounded,
          description |-> tier.description,
          training_recommendation |-> tier.training_recommendation,
          confidence |-> tier.confidence,
          signals |->
            [hrv_balance |-> [value |-> hrv_balance, weight |-> "35%", impact |-> "High"],
             readiness   |-> [value |-> readiness, weight |-> "30%", impact |-> "High"],
             sleep       |-> [value |-> sleep_score, weight |-> "20%", impact |-> "Medium"],
             resting_hr  |-> [deviation |-> resting_hr_deviation, weight |-> "10%",
                              impact |-> "Medium"],
             temperature |-> [value |-> temperature_score, weight |-> "5%",
                              impact |-> "Low"]]] :
         rounded \in Round1(recovery_score)}

\* the thresholds dict of assess_training_readiness
\* mutant: the endurance and strength rows exchanged
TRAINING_THRESHOLDS_EXCHANGED ==
    [general        |-> [optimal |-> 70, acceptable |-> 55, minimum |-> 45],
     endurance      |-> [optimal |-> 75, acceptable |-> 65, minimum |-> 55],
     strength       |-> [optimal |-> 70, acceptable |-> 60, minimum |-> 50],
     high_intensity |-> [optimal |-> 80, acceptable |-> 70, minimum |-> 60]]

TRAINING_THRESHOLDS ==
    [general        |-> [optimal |-> 70, acceptable |-> 55, minimum |-> 45],
     endurance      |-> [optimal |-> 70, acceptable |-> 60, minimum |-> 50],
     strength       |-> [optimal |-> 75, acceptable |-> 65, minimum |-> 55],
     high_intensity |-> [optimal |-> 80, acceptable |-> 70, minimum |-> 60]]

\* thresholds.get(training_type, thresholds["general"])
ThresholdsGet(type) ==
    IF type \in DOMAIN TRAINING_THRESHOLDS
    THEN TRAINING_THRESHOLDS[type]
    ELSE TRAINING_THRESHOLDS["general"]

\* mutant: a band starts above its threshold
GoNoGoAbove(recovery_score, threshold) ==
    IF recovery_score > threshold.optimal * 10
    THEN [go_nogo |-> "GO", confidence |-> "High",
          intensity |-> "Full intensity - no restrictions",
          duration |-> "Normal to extended duration acceptable",
          modifications |-> <<>>]
    ELSE IF recovery_score > threshold.acceptable * 10
    THEN [go_nogo |-> "GO (Modified)", confidence |-> "Medium",
          intensity |-> "Reduce to 70-85% of planned intensity",
          duration |-> "Reduce duration by 20-30%",
          modifications |-> <<"Shorten work intervals", "Extend rest periods",
                              "Focus on technique over load",
                              "Monitor how you feel - stop if struggling">>]
    ELSE IF recovery_score > threshold.minimum * 10
    THEN [go_nogo |-> "CAUTION", confidence |-> "Medium-Low",
          intensity |-> "Very light only (50-60%)",
          duration |-> "Significantly shortened",
          modifications |-> <<"Consider active recovery instead",
                              "Very light aerobic work only", "No high heart rates",
                              "Listen to body carefully">>]
    ELSE [go_nogo |-> "NO-GO", confidence |-> "High",
          intensity |-> "Rest day recommended",
          duration |-> "N/A",
          modifications |-> <<"Complete rest or very gentle movement",
                              "Focus on sleep and nutrition", "Re-assess tomorrow",
                              "Training today may impair recovery">>]

\* the if / elif chain of the recommendation; recovery_score in tenths.  The
\* emoji, a constant of the branch, is left out
GoNoGo(recovery_score, threshold) ==
    IF recovery_score >= threshold.optimal * 10
    THEN [go_nogo |-> "GO", confidence |-> "High",
          intensity |-> "Full intensity - no restrictions",
          duration |-> "Normal to extended duration acceptable",
          modifications |-> <<>>]
    ELSE IF recovery_score >= threshold.acceptable * 10
    THEN [go_nogo |-> "GO (Modified)", confidence |-> "Medium",
          intensity |-> "Reduce to 70-85% of planned intensity",
          duration |-> "Reduce duration by 20-30%",
          modifications |-> <<"Shorten work intervals", "Extend rest periods",
                              "Focus on technique over load",
                              "Monitor how you feel - stop if struggling">>]
    ELSE IF recovery_score >= threshold.minimum * 10
    THEN [go_nogo |-> "CAUTION", confidence |-> "Medium-Low",
          intensity |-> "Very light only (50-60%)",
          duration |-> "Significantly shortened",
          modifications |-> <<"Consider active recovery instead",
                              "Very light aerobic work only", "No high heart rates",
                              "Listen to body carefully">>]
    ELSE [go_nogo |-> "NO-GO", confidence |-> "High",
          intensity |-> "Rest day recommended",
          duration |-> "N/A",
          modifications |-> <<"Complete rest or very gentle movement",
                              "Focus on sleep and nutrition", "Re-assess tomorrow",
                              "Training today may impair recovery">>]

\* _identify_limiting_factors on a dict of interpret_recovery_state, which
\* has every signal; abs(deviation) > 4 is more than 40 tenths
IdentifyLimitingFactors(state) ==
    LET signals == state.signals
        factors ==
            (IF signals.hrv_balance.value < 60
             THEN <<"Low HRV - autonomic stress">> ELSE <<>>)
            \o (IF signals.sleep.value < 70 THEN <<"Poor sleep quality">> ELSE <<>>)
            \o (IF Abs(signals.resting_hr.deviation) > 4 * 10
                THEN <<"Elevated resting heart rate">> ELSE <<>>)
            \o (IF signals.temperature.value < 85
                THEN <<"Body temperature deviation">> ELSE <<>>)
    IN  IF factors = <<>> THEN <<"All metrics within acceptable ranges">> ELSE factors

\* training_type.replace("_", " ").title() of the training types the model draws
TrainingTitle ==
    [general        |-> "General",
     endurance      |-> "Endurance",
     strength       |-> "Strength",
     high_intensity |-> "High Intensity",
     yoga           |-> "Yoga"]

\* assess_training_readiness; round(recovery_score, 1) of a float that
\* already has one decimal is that float
AssessTrainingReadiness(readiness, state, type) ==
    LET recovery_score == state.recovery_score
        threshold == ThresholdsGet(type)
        chosen == GoNoGo(recovery_score, threshold)
    IN  [go_nogo |-> chosen.go_nogo,
         confidence |-> chosen.confidence,
         intensity |-> chosen.intensity,
         duration |-> chosen.duration,
         modifications |-> chosen.modifications,
         training_type |-> TrainingTitle[type],
         readiness_score |-> readiness,
         recovery_score |-> recovery_score,
         key_factors |-> IdentifyLimitingFactors(state)]

(***************************************************************************)
(* Recovery: interpret_recovery_state is called on one day's five signals  *)
(* and assess_training_readiness on its result                             *)
(***************************************************************************)
\* the scores drawn for each signal, all in the documented range 0..100, and
\* the resting-HR deviations in tenths of a bpm, below and above the 10 bpm
\* at which the resting-HR term reaches 0
HrvBalanceGrid  == {0, 40, 60, 80, 100}
ReadinessGrid   == {0, 50, 70, 85, 100}
SleepScoreGrid  == {0, 50, 70, 90, 100}
TemperatureGrid == {0, 80, 95, 99, 100}
DeviationGrid   == {0, 1, 5, 40, 41, 100, 150, -30}

\* the four training types of the thresholds dict and one that is not a key
TrainingTypes == DOMAIN TRAINING_THRESHOLDS \cup {"yoga"}

InitRecovery ==
    /\ recovery_args \in [readiness : ReadinessGrid, hrv_balance : HrvBalanceGrid,
                          resting_hr_deviation : DeviationGrid,
                          sleep_score : SleepScoreGrid,
                          temperature_score : TemperatureGrid]
    /\ recovery_state = NoResult
    /\ training_type \in TrainingTypes
    /\ recommendation = NoResult
    /\ sleep_data = <<>>
    /\ IllnessIdle
    /\ BaselineIdle
    /\ SleepIdle
    /\ AlertIdle
    /\ AnomalyIdle
    /\ DetectorIdle
    /\ ClientIdle

\* recovery_state = engine.interpret_recovery_state(**recovery_args)
InterpretRecovery ==
    /\ recovery_state = NoResult
    /\ recovery_state' \in InterpretRecoveryState(recovery_args.readiness,
                                                  recovery_args.hrv_balance,
                                                  recovery_args.resting_hr_deviation,
                                                  recovery_args.sleep_score,
                                                  recovery_args.temperature_score)
    /\ UNCHANGED <<recovery_args, training_type, recommendation, illnessVars, sleep_data,
                   baselineVars, sleepVars, alertVars, anomalyVars, detectorVars, clientVars>>

\* recommendation = engine.assess_training_readiness(readiness, recovery_state,
\*                                                   training_type)
AssessTraining ==
    /\ recovery_state # NoResult
    /\ recommendation = NoResult
    /\ recommendation' = AssessTrainingReadiness(recovery_args.readiness, recovery_state,
                                                 training_type)
    /\ UNCHANGED <<recovery_args, recovery_state, training_type, illnessVars, sleep_data,
                   baselineVars, sleepVars, alertVars, anomalyVars, detectorVars, clientVars>>

NextRecovery == InterpretRecovery \/ AssessTraining

SpecRecovery == InitRecovery /\ [][NextRecovery]_vars

(***************************************************************************)
(* Recovery: properties                                                    *)
(***************************************************************************)
\* the weighted sum of the signals the returned dict echoes, in hundredths
StatedRecoveryScore ==
    LET signals == recovery_state.signals
        deviation10 == Abs(signals.resting_hr.deviation)
    IN  35 * signals.hrv_balance.value + 30 * signals.readiness.value
          + 20 * signals.sleep.value
          + 10 * (IF 100 - deviation10 > 0 THEN 100 - deviation10 ELSE 0)
          + 5 * signals.temperature.value

\* the tier of a score in hundredths by the cutpoints 80 / 70 / 60 / 50
StatedTier(score) ==
    CASE score >= 8000 -> "Fully Recovered"
      [] score >= 7000 /\ score < 8000 -> "Well Recovered"
      [] score >= 6000 /\ score < 7000 -> "Adequately Recovered"
      [] score >= 5000 /\ score < 6000 -> "Partially Recovered"
      [] score < 5000 -> "Not Recovered"

\* hrv 80, readiness 85, sleep 90, deviation 0, temperature 95
ExampleSignals ==
    /\ recovery_state.signals.hrv_balance.value = 80
    /\ recovery_state.signals.readiness.value = 85
    /\ recovery_state.signals.sleep.value = 90
    /\ recovery_state.signals.resting_hr.deviation = 0
    /\ recovery_state.signals.temperature.value = 95

\* what every reading of the claim shares: the weighted sum is in [0, 100],
\* the state is its tier, and the example has sum 86.25 and the first tier
RecoveryTierAsStated ==
    /\ StatedRecoveryScore >= 0
    /\ StatedRecoveryScore <= 100 * 100
    /\ recovery_state.state = StatedTier(StatedRecoveryScore)
    /\ ExampleSignals =>
          /\ StatedRecoveryScore = 8625
          /\ recovery_state.state = "Fully Recovered"

\* C18 as stated: the recovery score interpret_recovery_state gives is the
\* weighted sum hrv*0.35 + readiness*0.30 + sleep*0.20
\* + max(0, 100 - 10*|deviation|)*0.10 + temperature*0.05, it lies in
\* [0, 100], the state is its tier by the cutpoints 80/70/60/50, and the
\* example inputs give 86.25 and 'Fully Recovered'
C18_RecoveryScoreIsWeightedSum ==
    recovery_state # NoResult =>
        /\ recovery_state.recovery_score * 10 = StatedRecoveryScore
        /\ RecoveryTierAsStated

\* C18 amended: the state is the tier of the weighted sum, which lies in
\* [0, 100] and is 86.25 for the example; the recovery_score of the returned
\* dict is that sum rounded to one decimal, so it is within 0.05 of the sum
\* and in [0, 100] too
C18_RecoveryScoreRoundedToOneDecimal ==
    recovery_state # NoResult =>
        /\ Abs(recovery_state.recovery_score * 10 - StatedRecoveryScore) <= 5
        /\ recovery_state.recovery_score \in 0..1000
        /\ RecoveryTierAsStated

\* the example inputs were interpreted: 'Fully Recovered', returned score 86.2
C18_Witness ==
    /\ recovery_state # NoResult
    /\ ExampleSignals
    /\ recovery_state.state = "Fully Recovered"
    /\ recovery_state.recovery_score = 862

\* the (optimal, acceptable, minimum) triple stated for a training type
StatedTriple ==
    CASE training_type = "general" -> <<70, 55, 45>>
      [] training_type = "endurance" -> <<70, 60, 50>>
      [] training_type = "strength" -> <<75, 65, 55>>
      [] training_type = "high_intensity" -> <<80, 70, 60>>
      [] OTHER -> <<70, 55, 45>>

\* C19: assess_training_readiness returns GO iff the recovery score of the
\* recovery state is at least optimal, GO (Modified) iff it is in
\* [acceptable, optimal), CAUTION iff it is in [minimum, acceptable) and NO-GO
\* iff it is below minimum, with the triple stated for the training type and
\* the general triple for any other type
C19_GoNoGoByTypeThresholds ==
    recommendation # NoResult =>
        LET score == recovery_state.recovery_score
            optimal == StatedTriple[1] * 10
            acceptable == StatedTriple[2] * 10
            minimum == StatedTriple[3] * 10
        IN  /\ recommendation.go_nogo \in {"GO", "GO (Modified)", "CAUTION", "NO-GO"}
            /\ recommendation.go_nogo = "GO" <=> score >= optimal
            /\ recommendation.go_nogo = "GO (Modified)"
                  <=> (acceptable <= score /\ score < optimal)
            /\ recommendation.go_nogo = "CAUTION"
                  <=> (minimum <= score /\ score < acceptable)
            /\ recommendation.go_nogo = "NO-GO" <=> score < minimum

\* C28: the tier and the decision derived from one interpret_recovery_state
\* result agree on the cutpoint 80: for high_intensity the decision is GO iff
\* the state is 'Fully Recovered', and the recommendation reports the
\* recovery_score of the recovery state
C28_HighIntensityGoIffFullyRecovered ==
    (recommendation # NoResult /\ training_type = "high_intensity") =>
        /\ recommendation.go_nogo = "GO" <=> recovery_state.state = "Fully Recovered"
        /\ recommendation.recovery_score = recovery_state.recovery_score

\* how restrictive a decision is
Restrictiveness == [t \in {"GO", "GO (Modified)", "CAUTION", "NO-GO"} |->
                       CASE t = "GO" -> 0
                         [] t = "GO (Modified)" -> 1
                         [] t = "CAUTION" -> 2
                         [] t = "NO-GO" -> 3]

\* the training types from the least to the most demanding
TypeChain == <<"general", "endurance", "strength", "high_intensity">>

\* recovery scores (tenths) on, just below and just above every cutpoint of
\* the four types, and the two ends of the scale
CutpointScores ==
    {0, 1000} \cup {t * 10 + d : t \in {45, 50, 55, 60, 65, 70, 75, 80}, d \in {-1, 0, 1}}

\* the decision for the recovery state at hand with another score, or for
\* another training type
DecisionAt(score, type) ==
    AssessTrainingReadiness(recovery_args.readiness,
                            [recovery_state EXCEPT !.recovery_score = score],
                            type).go_nogo

\* C30: for a fixed training type a higher recovery score never gives a
\* more restrictive decision (GO, GO (Modified), CAUTION, NO-GO), and for a
\* fixed recovery score the decision for general is never more restrictive
\* than for endurance, nor that than for strength, nor that than for
\* high_intensity
C30_TrainingReadinessMonotone ==
    recommendation # NoResult =>
        LET score == recovery_state.recovery_score
            rank  == Restrictiveness[recommendation.go_nogo]
        IN  /\ \A s \in CutpointScores :
                  /\ s >= score => Restrictiveness[DecisionAt(s, training_type)] <= rank
                  /\ s <= score => Restrictiveness[DecisionAt(s, training_type)] >= rank
            /\ \A i, j \in 1..Len(TypeChain) :
                  (i < j /\ training_type \in {TypeChain[i], TypeChain[j]})
                      => Restrictiveness[DecisionAt(score, TypeChain[i])]
                            <= Restrictiveness[DecisionAt(score, TypeChain[j])]
            /\ training_type \in DOMAIN TRAINING_THRESHOLDS
                  => recommendation.go_nogo = DecisionAt(score, training_type)

\* strength was assessed at a recovery score of 70.0 and got GO (Modified),
\* where endurance gets GO and a score of 75.0 gets GO for strength
C30_Witness ==
    /\ recommendation # NoResult
    /\ training_type = "strength"
    /\ recovery_state.recovery_score = 700
    /\ recommendation.go_nogo = "GO (Modified)"
    /\ DecisionAt(700, "endurance") = "GO"
    /\ DecisionAt(750, "strength") = "GO"

\* a type that is no key of the thresholds dict was assessed at a recovery
\* score of exactly 70.0 and got GO
C19_Witness ==
    /\ recommendation # NoResult
    /\ training_type = "yoga"
    /\ recovery_state.recovery_score = 700
    /\ recommendation.go_nogo = "GO"

(***************************************************************************)
(* utils/anomalies.py  AnomalyDetector, and the sleep baselines of         *)
(* utils/baselines.py it is computed from                                  *)
(*                                                                         *)
(* A sleep record is [score, contributors]; contributors has an entry for  *)
(* every contributor name, Absent for a name the dict does not hold, and a *)
(* record without the contributors key is one whose entries are all Absent *)
(* (record.get("contributors", {})).  Rounded deviations are in tenths.    *)
(***************************************************************************)
\* the contributor keys of scores_by_metric
SleepContributors ==
    {"total_sleep", "deep_sleep", "rem_sleep", "efficiency", "restfulness", "latency",
     "timing"}

\* scores_by_metric[metric] after the loop over the records
RECURSIVE MetricValues(_, _)
MetricValues(records, metric) ==
    IF records = <<>> THEN <<>>
    ELSE LET record == Head(records)
             here == IF metric = "sleep_score"
                     THEN (IF Truthy(record.score) THEN <<record.score>> ELSE <<>>)
                     ELSE (IF record.contributors[metric] # Absent
                           THEN <<record.contributors[metric]>> ELSE <<>>)
         IN  here \o MetricValues(Tail(records), metric)

\* calculate_sleep_baselines: a baseline for every metric that has a value
CalculateSleepBaselines(records) ==
    [metric \in {m \in {"sleep_score"} \cup SleepContributors :
                    MetricValues(records, m) # <<>>}
        |-> CalculateBaseline(MetricValues(records, metric))]

\* the dict appended for the overall score; {:.0f} of the absolute
\* percentage is kept in the pct entry of the message
ScoreAnomaly(current_score, score_interp) ==
    [metric |-> "sleep_score",
     type |-> "significant_deviation",
     severity |-> IF score_interp.status = "highly_abnormal" THEN "high" ELSE "medium",
     current_value |-> current_score,
     baseline_mean |-> score_interp.baseline_mean,
     deviation |-> score_interp.deviation_absolute,
     deviation_pct |-> score_interp.deviation_percentage,
     message |-> [text |-> "Sleep score {} is {}% {} your 30-day average",
                  value |-> current_score,
                  pct |-> RoundHalfEven(Abs(score_interp.deviation_percentage), 10),
                  side |-> IF score_interp.deviation_percentage < 0
                           THEN "below" ELSE "above"]]

\* the dict appended for deep sleep
DeepSleepAnomaly(deep_sleep, deep_interp) ==
    [metric |-> "deep_sleep",
     type |-> "significant_drop",
     severity |-> "high",
     current_value |-> deep_sleep,
     baseline_mean |-> deep_interp.baseline_mean,
     deviation |-> deep_interp.deviation_absolute,
     deviation_pct |-> deep_interp.deviation_percentage,
     message |-> [text |-> "Deep sleep score {} is {}% below normal",
                  value |-> deep_sleep,
                  pct |-> RoundHalfEven(Abs(deep_interp.deviation_percentage), 10)],
     possible_causes |-> <<"Stress or anxiety", "Alcohol consumption",
                           "Late meals or caffeine",
                           "Environmental factors (noise, temperature)",
                           "Sleep apnea or breathing issues",
                           "Illness or inflammation">>]

\* the dict appended for restfulness
RestfulnessAnomaly(restfulness, rest_interp) ==
    [metric |-> "restfulness",
     type |-> "increased_movement",
     severity |-> "medium",
     current_value |-> restfulness,
     baseline_mean |-> rest_interp.baseline_mean,
     deviation |-> rest_interp.deviation_absolute,
     deviation_pct |-> rest_interp.deviation_percentage,
     message |-> [text |-> "Restfulness {} indicates more movement than usual",
                  value |-> restfulness],
     possible_causes |-> <<"Stress or worry", "Uncomfortable sleeping environment",
                           "Sleep apnea events", "Pain or discomfort",
                           "Caffeine or stimulants">>]

\* detect_sleep_anomalies: the exception that leaves the call ("None" when
\* it returns) and the list returned.  interpret_deviation subtracts the
\* mean from current_value, a TypeError when the current score is None
DetectSleepAnomalies(current, recent) ==
    LET baselines == CalculateSleepBaselines(recent)
        current_score == GetOr(current.score, 0)
        contributors == current.contributors
        score_part ==
            IF "sleep_score" \in DOMAIN baselines
            THEN LET score_interp == InterpretDeviation(current_score,
                                                        baselines["sleep_score"])
                 IN  IF score_interp.status \in {"moderately_abnormal", "highly_abnormal"}
                     THEN <<ScoreAnomaly(current_score, score_interp)>>
                     ELSE <<>>
            ELSE <<>>
        deep_part ==
            IF contributors["deep_sleep"] # Absent /\ "deep_sleep" \in DOMAIN baselines
            THEN LET deep_sleep == contributors["deep_sleep"]
                     deep_interp == InterpretDeviation(deep_sleep, baselines["deep_sleep"])
                 IN  IF deep_interp.deviation_percentage < -30 * 10
                     THEN <<DeepSleepAnomaly(deep_sleep, deep_interp)>>
                     ELSE <<>>
            ELSE <<>>
        rest_part ==
            IF contributors["restfulness"] # Absent /\ "restfulness" \in DOMAIN baselines
            THEN LET restfulness == contributors["restfulness"]
                     rest_interp == InterpretDeviation(restfulness,
                                                       baselines["restfulness"])
                 IN  IF rest_interp.deviation_percentage < -20 * 10
                     THEN <<RestfulnessAnomaly(restfulness, rest_interp)>>
                     ELSE <<>>
            ELSE <<>>
    IN  IF "sleep_score" \in DOMAIN baselines /\ current_score = None
        THEN [raised |-> "TypeError", anomalies |-> <<>>]
        ELSE [raised |-> "None", anomalies |-> score_part \o deep_part \o rest_part]

(***************************************************************************)
(* Sleep anomalies: detect_sleep_anomalies is called on a current record   *)
(* and a window of recent records                                          *)
(***************************************************************************)
MaxRecent == 3

\* a record with the given score, deep_sleep and restfulness entries and no
\* other contributor
DailySleep(score, deep_sleep, restfulness) ==
    [score |-> score,
     contributors |-> [m \in SleepContributors |->
                          CASE m = "deep_sleep" -> deep_sleep
                            [] m = "restfulness" -> restfulness
                            [] OTHER -> Absent]]

\* the recent records: three nights around score 80, deep sleep 74.3 and
\* restfulness 80, a night without a score, a night with score 0 and deep
\* sleep only, and a night with neither key
RecentRecords ==
    {DailySleep(80, 74, 80), DailySleep(84, 75, 82), DailySleep(76, 74, 78),
     DailySleep(None, Absent, Absent), DailySleep(0, 80, Absent),
     DailySleep(Absent, Absent, Absent)}

RECURSIVE RecentWindows(_)
RecentWindows(n) ==
    IF n = 0 THEN {<<>>}
    ELSE RecentWindows(n - 1)
         \cup {Append(w, r) : w \in {v \in RecentWindows(n - 1) : Len(v) = n - 1},
                              r \in RecentRecords}

\* the current record: scores from the baseline mean down through every
\* status band, deep sleep and restfulness down through their thresholds
CurrentScores == {Absent, None, 0, 70, 74, 76, 78, 80, 90}
CurrentDeepSleep == {Absent, 40, 52, 53, 56, 74, 90}
CurrentRestfulness == {Absent, 60, 63, 64, 80}

InitAnomalies ==
    /\ recent_nights \in RecentWindows(MaxRecent)
    /\ \E score \in CurrentScores, deep_sleep \in CurrentDeepSleep,
          restfulness \in CurrentRestfulness :
            current_sleep = DailySleep(score, deep_sleep, restfulness)
    /\ anomalies = <<>>
    /\ sleep_data = <<>>
    /\ IllnessIdle
    /\ BaselineIdle
    /\ SleepIdle
    /\ AlertIdle
    /\ RecoveryIdle
    /\ DetectorIdle
    /\ ClientIdle

\* anomalies = detector.detect_sleep_anomalies(current_sleep, recent_sleep)
DetectSleep ==
    /\ called = "None"
    /\ LET result == DetectSleepAnomalies(current_sleep, recent_nights)
       IN  /\ exception' = result.raised
           /\ anomalies' = result.anomalies
    /\ called' = "detect_sleep_anomalies"
    /\ UNCHANGED <<current_sleep, recent_nights, illnessVars, sleep_data, baselineVars,
                   system, alerts, debt_analysis, debt_trace, activity_data, now,
                   consecutive_bad, evaluated, cls_THRESHOLDS, instances, recoveryVars, detectorVars, clientVars>>

NextAnomalies == DetectSleep

SpecAnomalies == InitAnomalies /\ [][NextAnomalies]_vars

(***************************************************************************)
(* Sleep anomalies: properties                                             *)
(***************************************************************************)
\* the anomalies of a type in the returned list
AnomaliesOfType(type) ==
    {i \in 1..Len(anomalies) : anomalies[i].type = type}

\* the status of the current sleep score against the recent scores
StatedScoreStatus ==
    InterpretDeviation(current_sleep.score,
                       CalculateBaseline(MetricValues(recent_nights, "sleep_score"))).status

\* the current record has the contributor, the recent records give it a
\* baseline, and (current - mean) / mean * 100 is below -drop, for a mean
\* sum / n > 0: 100 * (current * n - sum) < -drop * sum
StatedPercentageBelow(metric, drop) ==
    LET recent == MetricValues(recent_nights, metric)
        current == current_sleep.contributors[metric]
    IN  /\ current # Absent
        /\ recent # <<>>
        /\ SumSeq(recent) > 0
        /\ 100 * (current * Len(recent) - SumSeq(recent)) < (0 - drop) * SumSeq(recent)

\* C20: after detect_sleep_anomalies a significant_drop of severity high is
\* in the list iff the deep-sleep percentage deviation is below -30, an
\* increased_movement of severity medium iff the restfulness percentage
\* deviation is below -20, and, for a current record with a score, a
\* significant_deviation iff the status of the score is moderately or highly
\* abnormal, of severity high iff highly abnormal; each check is decided by
\* its own metric alone
C20_ThreeIndependentChecks ==
    called = "detect_sleep_anomalies" =>
        /\ AnomaliesOfType("significant_drop") # {}
              <=> StatedPercentageBelow("deep_sleep", 30)
        /\ AnomaliesOfType("increased_movement") # {}
              <=> StatedPercentageBelow("restfulness", 20)
        /\ Get(current_sleep.score) # None =>
              (AnomaliesOfType("significant_deviation") # {}
                  <=> /\ MetricValues(recent_nights, "sleep_score") # <<>>
                      /\ StatedScoreStatus \in {"moderately_abnormal", "highly_abnormal"})
        /\ \A i \in 1..Len(anomalies) :
              anomalies[i].severity =
                  CASE anomalies[i].type = "significant_drop" -> "high"
                    [] anomalies[i].type = "increased_movement" -> "medium"
                    [] anomalies[i].type = "significant_deviation" ->
                          IF StatedScoreStatus = "highly_abnormal" THEN "high" ELSE "medium"
        /\ \A type \in {"significant_deviation", "significant_drop", "increased_movement"} :
              Cardinality(AnomaliesOfType(type)) <= 1

\* the baseline of the recent sleep scores
ScoreBaseline == CalculateSleepBaselines(recent_nights)["sleep_score"]

\* the recent records give the sleep score a baseline of standard deviation
\* 0 (one sample, or equal samples) and the current score is a number
FlatScoreBaseline ==
    /\ "sleep_score" \in DOMAIN CalculateSleepBaselines(recent_nights)
    /\ ScoreBaseline.count >= 1
    /\ ScoreBaseline.std_dev_sq.n = 0
    /\ GetOr(current_sleep.score, 0) # None

\* C26: against a baseline of count >= 1 and standard deviation 0,
\* interpret_deviation returns deviation_std 0 and status normal for every
\* current value, however far from the mean, without raising; hence
\* detect_sleep_anomalies emits no significant_deviation against it
C26_ZeroStdevIsNormal ==
    (called = "detect_sleep_anomalies" /\ FlatScoreBaseline) =>
        LET score_interp == InterpretDeviation(GetOr(current_sleep.score, 0), ScoreBaseline)
        IN  /\ score_interp.deviation_std = 0
            /\ score_interp.status = "normal"
            /\ exception = "None"
            /\ AnomaliesOfType("significant_deviation") = {}

\* a score 80 below the mean of two equal samples, and one 10 above a
\* single sample
C26_Witness ==
    /\ called = "detect_sleep_anomalies"
    /\ FlatScoreBaseline
    /\ exception = "None"
    /\ \/ /\ ScoreBaseline.count = 2
          /\ FracEQ(ScoreBaseline.mean, FracInt(80))
          /\ current_sleep.score = 0
       \/ /\ ScoreBaseline.count = 1
          /\ FracEQ(ScoreBaseline.mean, FracInt(80))
          /\ current_sleep.score = 90

(***************************************************************************)
(* utils/anomalies.py  detect_readiness_anomalies and                      *)
(* detect_consecutive_decline, and the readiness baselines of              *)
(* utils/baselines.py                                                      *)
(*                                                                         *)
(* A readiness record is [score, contributors] like a sleep record; an     *)
(* entry of contributors is a number, None, or Absent for a missing key    *)
(***************************************************************************)
\* the contributor keys of scores_by_metric
ReadinessContributors ==
    {"activity_balance", "body_temperature", "hrv_balance", "previous_day_activity",
     "previous_night", "recovery_index", "resting_heart_rate", "sleep_balance",
     "sleep_regularity"}

\* scores_by_metric[metric] after the loop over the records: a contributor
\* that is None is skipped
RECURSIVE ReadinessMetricValues(_, _)
ReadinessMetricValues(records, metric) ==
    IF records = <<>> THEN <<>>
    ELSE LET record == Head(records)
             here == IF metric = "readiness_score"
                     THEN (IF Truthy(record.score) THEN <<record.score>> ELSE <<>>)
                     ELSE (IF Get(record.contributors[metric]) # None
                           THEN <<record.contributors[metric]>> ELSE <<>>)
         IN  here \o ReadinessMetricValues(Tail(records), metric)

\* calculate_readiness_baselines: a baseline for every metric that has a value
CalculateReadinessBaselines(records) ==
    [metric \in {m \in {"readiness_score"} \cup ReadinessContributors :
                    ReadinessMetricValues(records, m) # <<>>}
        |-> CalculateBaseline(ReadinessMetricValues(records, metric))]

\* the dict appended for a low HRV balance
LowHrvAnomaly(hrv, hrv_interp) ==
    [metric |-> "hrv_balance",
     type |-> "low_hrv",
     severity |-> IF hrv < 30 THEN "high" ELSE "medium",
     current_value |-> hrv,
     baseline_mean |-> hrv_interp.baseline_mean,
     deviation |-> hrv_interp.deviation_absolute,
     message |-> [text |-> "HRV Balance {} indicates incomplete recovery", value |-> hrv],
     possible_causes |-> <<"Accumulated fatigue", "Stress (physical or mental)",
                           "Illness onset", "Overtraining", "Poor sleep quality",
                           "Dehydration">>]

\* the dict appended for a low body temperature score
TemperatureAnomaly(temp) ==
    [metric |-> "body_temperature",
     type |-> "temperature_deviation",
     severity |-> "medium",
     current_value |-> temp,
     message |-> [text |-> "Body temperature score {} is lower than optimal",
                  value |-> temp],
     possible_causes |-> <<"Insufficient recovery", "Hormonal changes",
                           "Possible illness", "Overtraining">>]

\* detect_readiness_anomalies: the exception that leaves the call ("None"
\* when it returns) and the list returned.  With a baseline, an hrv_balance
\* of None reaches interpret_deviation, which subtracts the mean from it
DetectReadinessAnomalies(current, recent) ==
    LET baselines == CalculateReadinessBaselines(recent)
        contributors == current.contributors
        hrv == contributors["hrv_balance"]
        temp == contributors["body_temperature"]
        hrv_checked == hrv # Absent /\ "hrv_balance" \in DOMAIN baselines
        hrv_part ==
            IF hrv_checked
            THEN LET hrv_interp == InterpretDeviation(hrv, baselines["hrv_balance"])
                 IN  IF hrv < 50 THEN <<LowHrvAnomaly(hrv, hrv_interp)>> ELSE <<>>
            ELSE <<>>
        temp_part ==
            IF temp # Absent /\ temp # None /\ temp < 85
            THEN <<TemperatureAnomaly(temp)>> ELSE <<>>
    IN  IF hrv_checked /\ hrv = None
        THEN [raised |-> "TypeError", anomalies |-> <<>>]
        ELSE [raised |-> "None", anomalies |-> hrv_part \o temp_part]

\* what a call returns that returns None
NoneReturned == [returned |-> "None"]

\* all(metric_values[i] < metric_values[i + 1] for i in range(days - 1)),
\* the list indexed from 1
Declining(list, days) ==
    \A i \in 0..(days - 2) : list[i + 1] < list[i + 2]

\* list[k] for a Python index k, which counts from the end when negative
PyIndex(list, k) == IF k >= 0 THEN list[k + 1] ELSE list[Len(list) + k + 1]

\* detect_consecutive_decline: the exception that leaves the call and what
\* it returns; total_drop is metric_values[0] - metric_values[days - 1], an
\* IndexError on an empty list when days is 0
DetectConsecutiveDecline(list, days) ==
    IF Len(list) < days THEN [raised |-> "None", result |-> NoneReturned]
    ELSE IF ~Declining(list, days) THEN [raised |-> "None", result |-> NoneReturned]
    ELSE IF list = <<>> THEN [raised |-> "IndexError", result |-> NoResult]
    ELSE [raised |-> "None",
          result |-> [type |-> "consecutive_decline",
                      severity |-> IF days >= 4 THEN "high" ELSE "medium",
                      days |-> days,
                      total_drop |-> PyIndex(list, 0) - PyIndex(list, days - 1),
                      message |-> [text |-> "Metric has declined for {} consecutive days (total: {:.1f})",
                                   days |-> days,
                                   total |-> PyIndex(list, 0) - PyIndex(list, days - 1)]]]

(***************************************************************************)
(* Readiness anomalies: detect_readiness_anomalies is called on a current  *)
(* record and a window of recent records                                   *)
(***************************************************************************)
\* a record with the given score, hrv_balance and body_temperature entries
\* and no other contributor
DailyReadiness(score, hrv_balance, body_temperature) ==
    [score |-> score,
     contributors |-> [m \in ReadinessContributors |->
                          CASE m = "hrv_balance" -> hrv_balance
                            [] m = "body_temperature" -> body_temperature
                            [] OTHER -> Absent]]

\* the recent records: two days with every entry, a day whose HRV balance is
\* None, and a day without contributors
RecentReadiness ==
    {DailyReadiness(80, 60, 90), DailyReadiness(70, 40, 80),
     DailyReadiness(75, None, 95), DailyReadiness(None, Absent, Absent)}

RECURSIVE ReadinessWindows(_)
ReadinessWindows(n) ==
    IF n = 0 THEN {<<>>}
    ELSE ReadinessWindows(n - 1)
         \cup {Append(w, r) : w \in {v \in ReadinessWindows(n - 1) : Len(v) = n - 1},
                              r \in RecentReadiness}

\* the current record: HRV balance and temperature on both sides of their
\* thresholds, None, and missing
CurrentHrvBalance == {Absent, None, 0, 29, 30, 49, 50, 80}
CurrentTemperature == {Absent, None, 84, 85, 100}

InitReadinessAnomalies ==
    /\ recent_days \in ReadinessWindows(MaxRecent)
    /\ \E hrv_balance \in CurrentHrvBalance, body_temperature \in CurrentTemperature :
            current_readiness = DailyReadiness(75, hrv_balance, body_temperature)
    /\ metric_values = <<>>
    /\ decline_days = 0
    /\ decline = NoResult
    /\ sleep_data = <<>>
    /\ IllnessIdle
    /\ BaselineIdle
    /\ SleepIdle
    /\ AlertIdle
    /\ RecoveryIdle
    /\ AnomalyIdle
    /\ ClientIdle

\* anomalies = detector.detect_readiness_anomalies(current_readiness, recent_readiness)
DetectReadiness ==
    /\ called = "None"
    /\ LET result == DetectReadinessAnomalies(current_readiness, recent_days)
       IN  /\ exception' = result.raised
           /\ anomalies' = result.anomalies
    /\ called' = "detect_readiness_anomalies"
    /\ UNCHANGED <<current_sleep, recent_nights, illnessVars, sleep_data, baselineVars,
                   system, alerts, debt_analysis, debt_trace, activity_data, now,
                   consecutive_bad, evaluated, cls_THRESHOLDS, instances, recoveryVars,
                   current_readiness, recent_days, metric_values, decline_days, decline,
                   clientVars>>

NextReadinessAnomalies == DetectReadiness

SpecReadinessAnomalies == InitReadinessAnomalies /\ [][NextReadinessAnomalies]_vars

(***************************************************************************)
(* Readiness anomalies: properties                                         *)
(***************************************************************************)
\* C21: after detect_readiness_anomalies a low_hrv signal is in the list iff
\* the current HRV-balance contributor is a number below 50, with severity
\* high iff it is below 30, and a temperature_deviation of severity medium
\* iff the current body-temperature contributor is a number below 85,
\* whatever the recent window holds
C21_ReadinessChecksUseCurrentValueOnly ==
    called = "detect_readiness_anomalies" =>
        LET hrv == Get(current_readiness.contributors["hrv_balance"])
            temp == Get(current_readiness.contributors["body_temperature"])
        IN  /\ AnomaliesOfType("low_hrv") # {} <=> (hrv # None /\ hrv < 50)
            /\ AnomaliesOfType("temperature_deviation") # {}
                  <=> (temp # None /\ temp < 85)
            /\ \A i \in 1..Len(anomalies) :
                  anomalies[i].severity =
                      CASE anomalies[i].type = "low_hrv" ->
                              IF hrv < 30 THEN "high" ELSE "medium"
                        [] anomalies[i].type = "temperature_deviation" -> "medium"

(***************************************************************************)
(* Consecutive decline: detect_consecutive_decline is called on a list of  *)
(* values, newest first, and a number of days                              *)
(***************************************************************************)
MaxSeries == 4

RECURSIVE SeriesUpTo(_)
SeriesUpTo(n) ==
    IF n = 0 THEN {<<>>}
    ELSE SeriesUpTo(n - 1)
         \cup {Append(w, v) : w \in {u \in SeriesUpTo(n - 1) : Len(u) = n - 1},
                              v \in 1..MaxSeries}

InitDecline ==
    /\ metric_values \in SeriesUpTo(MaxSeries)
    /\ decline_days \in 0..MaxSeries
    /\ decline = NoResult
    /\ current_readiness = NoResult
    /\ recent_days = <<>>
    /\ sleep_data = <<>>
    /\ IllnessIdle
    /\ BaselineIdle
    /\ SleepIdle
    /\ AlertIdle
    /\ RecoveryIdle
    /\ AnomalyIdle
    /\ ClientIdle

\* decline = detector.detect_consecutive_decline(metric_values, days)
DetectDecline ==
    /\ called = "None"
    /\ LET result == DetectConsecutiveDecline(metric_values, decline_days)
       IN  /\ exception' = result.raised
           /\ decline' = result.result
    /\ called' = "detect_consecutive_decline"
    /\ UNCHANGED <<anomalyVars, illnessVars, sleep_data, baselineVars,
                   system, alerts, debt_analysis, debt_trace, activity_data, now,
                   consecutive_bad, evaluated, cls_THRESHOLDS, instances, recoveryVars,
                   current_readiness, recent_days, metric_values, decline_days,
                   clientVars>>

NextDecline == DetectDecline

SpecDecline == InitDecline /\ [][NextDecline]_vars

(***************************************************************************)
(* Consecutive decline: properties                                         *)
(***************************************************************************)
\* each of the first days values has a successor and is below it, the list
\* indexed from 1
StatedDeclining ==
    \A i \in 1..decline_days :
        /\ i + 1 <= Len(metric_values)
        /\ metric_values[i] < metric_values[i + 1]

\* C22: a call of detect_consecutive_decline that returns gives a decline
\* signal iff each of the first days values is strictly less than its
\* successor in the list, and None otherwise; the severity of the signal is
\* high iff days >= 4, else medium
C22_DeclineIffEachOfFirstDaysBelowSuccessor ==
    (called = "detect_consecutive_decline" /\ exception = "None") =>
        /\ decline # NoneReturned <=> StatedDeclining
        /\ decline # NoneReturned =>
              /\ decline.type = "consecutive_decline"
              /\ decline.severity = (IF decline_days >= 4 THEN "high" ELSE "medium")

(***************************************************************************)
(* api/client.py  OuraClient: the rate limiting of _request                *)
(*                                                                         *)
(* The coroutines of one client run on one event loop: _request runs       *)
(* without interruption from its start to the first await that suspends    *)
(* it, asyncio.sleep in _rate_limit or the HTTP request itself, and from   *)
(* the end of the sleep to the HTTP request.  Times are seconds of the     *)
(* loop's clock.                                                           *)
(***************************************************************************)
\* OuraClient.__init__ on a day, with the limits of config.rate_limit
OuraClientInit(requests_per_minute, requests_per_day, today) ==
    [rate_limit |-> [requests_per_minute |-> requests_per_minute,
                     requests_per_day |-> requests_per_day],
     _client |-> "None",
     _request_times |-> <<>>,
     _daily_requests |-> 0,
     _daily_reset_time |-> today]

\* _ensure_client
EnsureClient(self) == [self EXCEPT !._client = "AsyncClient"]

\* the daily reset at the head of _rate_limit
ResetDaily(self, today) ==
    IF today > self._daily_reset_time
    THEN [self EXCEPT !._daily_requests = 0, !._daily_reset_time = today]
    ELSE self

\* [t for t in self._request_times if t > minute_ago]
RecentTimes(self, at) == SelectSeq(self._request_times, LAMBDA t : t > at - 60)

\* the two statements that record a request
RecordRequest(self, at) ==
    [self EXCEPT !._request_times = Append(@, at), !._daily_requests = @ + 1]

\* _ensure_client and _rate_limit up to the point where the call raises, is
\* suspended in asyncio.sleep, or has recorded the request: the client
\* after it and where the call is
RateLimitEnter(self, at, today) ==
    LET ready == ResetDaily(EnsureClient(self), today)
        recent == RecentTimes(ready, at)
        pruned == [ready EXCEPT !._request_times = recent]
    IN  IF ready._daily_requests >= ready.rate_limit.requests_per_day
        THEN [client |-> ready,
              call |-> [pc |-> "OuraRateLimitError", now |-> at, wake |-> at]]
        ELSE IF Len(recent) >= ready.rate_limit.requests_per_minute
        THEN [client |-> pruned,
              call |-> [pc |-> "sleep", now |-> at,
                        wake |-> at + (60 - (at - recent[1]))]]
        ELSE [client |-> RecordRequest(pruned, at),
              call |-> [pc |-> "request", now |-> at, wake |-> at]]

(***************************************************************************)
(* Client: _request is called on one OuraClient by up to MaxRequests       *)
(* tasks while the loop's clock and the date advance                       *)
(***************************************************************************)
MaxRequests == 4
MaxLoopTime == 120
MaxCalendarDay == 1

InitClient ==
    /\ loop_time = 0
    /\ calendar_day = 0
    /\ \E requests_per_minute \in {1, 2}, requests_per_day \in {2, 3} :
          client = OuraClientInit(requests_per_minute, requests_per_day, 0)
    /\ in_flight = <<>>
    /\ sent = <<>>
    /\ sleep_data = <<>>
    /\ IllnessIdle
    /\ BaselineIdle
    /\ SleepIdle
    /\ AlertIdle
    /\ RecoveryIdle
    /\ AnomalyIdle
    /\ DetectorIdle

\* a task calls client._request(...): it raises, goes to sleep, or reaches
\* the HTTP request
Request ==
    /\ Len(in_flight) < MaxRequests
    /\ LET entered == RateLimitEnter(client, loop_time, calendar_day)
       IN  /\ client' = entered.client
           /\ in_flight' = Append(in_flight, entered.call)
           /\ sent' = IF entered.call.pc = "request" THEN Append(sent, loop_time) ELSE sent
    /\ UNCHANGED <<loop_time, calendar_day, illnessVars, sleep_data, baselineVars, sleepVars,
                   alertVars, recoveryVars, anomalyVars, detectorVars>>

\* the sleep of a task is over: it records the request with the time it
\* read before the sleep and reaches the HTTP request
Resume ==
    \E i \in 1..Len(in_flight) :
        /\ in_flight[i].pc = "sleep"
        /\ in_flight[i].wake <= loop_time
        /\ client' = RecordRequest(client, in_flight[i].now)
        /\ in_flight' = [in_flight EXCEPT ![i].pc = "request"]
        /\ sent' = Append(sent, loop_time)
        /\ UNCHANGED <<loop_time, calendar_day, illnessVars, sleep_data, baselineVars,
                       sleepVars, alertVars, recoveryVars, anomalyVars, detectorVars>>

\* 20 seconds pass; a task whose sleep is over resumes before that
ClockAdvance ==
    /\ loop_time < MaxLoopTime
    /\ \A i \in 1..Len(in_flight) :
          in_flight[i].pc = "sleep" => in_flight[i].wake > loop_time
    /\ loop_time' = loop_time + 20
    /\ UNCHANGED <<calendar_day, client, in_flight, sent, illnessVars, sleep_data,
                   baselineVars, sleepVars, alertVars, recoveryVars, anomalyVars,
                   detectorVars>>

\* midnight passes
DateAdvance ==
    /\ calendar_day < MaxCalendarDay
    /\ calendar_day' = calendar_day + 1
    /\ UNCHANGED <<loop_time, client, in_flight, sent, illnessVars, sleep_data,
                   baselineVars, sleepVars, alertVars, recoveryVars, anomalyVars,
                   detectorVars>>

NextClient == Request \/ Resume \/ ClockAdvance \/ DateAdvance

SpecClient == InitClient /\ [][NextClient]_vars

(***************************************************************************)
(* Client: properties                                                      *)
(***************************************************************************)
\* the calls that reached the HTTP layer in the 60 seconds up to time at
SentWithinMinute(at) ==
    {j \in 1..Len(sent) : sent[j] > at - 60 /\ sent[j] <= at}

\* C23: in no 60-second window do more than requests_per_minute calls of
\* _request pass _rate_limit and reach the HTTP layer, however many are in
\* flight and however many find the window full together
C23_AtMostRequestsPerMinuteSent ==
    \A i \in 1..Len(sent) :
        Cardinality(SentWithinMinute(sent[i])) <= client.rate_limit.requests_per_minute

\* a step in which a task calls _request
RequestMade == Len(in_flight') = Len(in_flight) + 1

\* C24: _daily_requests never exceeds requests_per_day; a request made on
\* the day of the count when the count has reached requests_per_day raises
\* OuraRateLimitError, makes no HTTP call and leaves _daily_requests and
\* _request_times unchanged; and a request made after the date has advanced
\* counts from 0
C24_DailyLimitNeverExceeded ==
    /\ [](client._daily_requests <= client.rate_limit.requests_per_day)
    /\ [][(/\ RequestMade
           /\ calendar_day <= client._daily_reset_time
           /\ client._daily_requests >= client.rate_limit.requests_per_day)
             => /\ in_flight'[Len(in_flight')].pc = "OuraRateLimitError"
                /\ sent' = sent
                /\ client'._daily_requests = client._daily_requests
                /\ client'._request_times = client._request_times]_vars
    /\ [][(RequestMade /\ calendar_day > client._daily_reset_time)
             => /\ client'._daily_requests \in {0, 1}
                /\ client'._daily_reset_time = calendar_day]_vars

====
